---- MODULE Spec2Model ----
(***************************************************************************)
(* A model of the client orchestrator of egile-mcp-client                  *)
(* (src/egile_mcp_client/mcp/client.py, class MCPClient).                  *)
(*                                                                         *)
(* The client's coroutines run as asyncio tasks: the code between two      *)
(* awaits of a connection method runs without interruption, and at each    *)
(* such await any other task may run.  Every action below is one such      *)
(* uninterrupted stretch of one task.  A task is one caller: it runs one    *)
(* public operation of MCPClient at a time, any number of them in turn.    *)
(*                                                                         *)
(* The connection classes (egile_mcp_client/mcp/connection.py) are not     *)
(* among the source files: a connection is modelled from the transport and *)
(* connection contract of the specification (sections 4.2 and 4.3) as an   *)
(* object whose awaited methods return or raise, chosen by the             *)
(* environment.                                                            *)
(*                                                                         *)
(* Beside the client the module models the reference server                *)
(* (src/simple_mcp_server.py), load_config (src/egile_mcp_client/config.py)*)
(* and, from the specification, the message codec and the pending-request  *)
(* table of one connection.  Each has a variable and a specification of    *)
(* its own; in the specifications of the client they stay as they start.   *)
(***************************************************************************)
EXTENDS Integers, Sequences, FiniteSets, TLC

\* Number of callers that can have an operation in progress at once.
NumTasks == 2

Tasks == 1..NumTasks

\* Number of connection objects that can exist at once.
MaxConns == 3

Conns == 1..MaxConns

(***************************************************************************)
(* Configuration: Config.mcp_servers, a list of MCPServerConfig.           *)
(* test_server and http_server are the two servers of the test fixture;    *)
(* no_url is an http server whose url is missing; "nonexistent" is a name  *)
(* callers pass that is not configured.  A Python value is written as its  *)
(* literal: "None", "" (the empty string), "[]", "{}", or a non-empty one. *)
(***************************************************************************)
mcp_servers ==
    << [name |-> "test_server", type |-> "stdio", url |-> "None",
        command |-> "[python, test_server.py]"],
       [name |-> "http_server", type |-> "http",  url |-> "http://localhost:8000",
        command |-> "None"],
       [name |-> "no_url",      type |-> "http",  url |-> "None",
        command |-> "None"] >>

\* The truth value Python gives a value in `if value:` and `not value`.
Bool(value) == value \notin {"None", "", "[]", "{}"}

ServerNames == {"test_server", "http_server", "no_url", "nonexistent"}

\* The lookup loop at the head of connect_to_server: the first config with
\* the name, or None.
None == [name |-> "None"]

FindServerConfig(server_name) ==
    IF \E i \in 1..Len(mcp_servers) : mcp_servers[i].name = server_name
    THEN mcp_servers[CHOOSE i \in 1..Len(mcp_servers) :
                        /\ mcp_servers[i].name = server_name
                        /\ \A j \in 1..(i-1) : mcp_servers[j].name # server_name]
    ELSE None

\* A variant of _create_connection that does not look at the command of a
\* stdio server.
CreateConnectionUnvalidatedStdio(server_config) ==
    IF server_config.type = "http"
    THEN IF ~Bool(server_config.url) THEN "ValueError" ELSE "HTTPMCPConnection"
    ELSE IF server_config.type = "websocket"
    THEN IF ~Bool(server_config.url) THEN "ValueError" ELSE "WebSocketMCPConnection"
    ELSE IF server_config.type = "stdio"
    THEN "StdioMCPConnection"
    ELSE "ValueError"

\* _create_connection: the connection class for a server config, or the
\* ValueError it raises.
CreateConnection(server_config) ==
    IF server_config.type = "http"
    THEN IF ~Bool(server_config.url) THEN "ValueError" ELSE "HTTPMCPConnection"
    ELSE IF server_config.type = "websocket"
    THEN IF ~Bool(server_config.url) THEN "ValueError" ELSE "WebSocketMCPConnection"
    ELSE IF server_config.type = "stdio"
    THEN IF ~Bool(server_config.command) THEN "ValueError" ELSE "StdioMCPConnection"
    ELSE "ValueError"

(***************************************************************************)
(* The six operational calls and the protocol method each one sends.       *)
(***************************************************************************)
Operations ==
    {"list_tools", "call_tool", "list_resources",
     "read_resource", "list_prompts", "get_prompt"}

Method(operation) ==
    CASE operation = "list_tools"     -> "tools/list"
      [] operation = "call_tool"      -> "tools/call"
      [] operation = "list_resources" -> "resources/list"
      [] operation = "read_resource"  -> "resources/read"
      [] operation = "list_prompts"   -> "prompts/list"
      [] operation = "get_prompt"     -> "prompts/get"

OperationalMethods == {Method(o) : o \in Operations}

(***************************************************************************)
(* The Responses a peer can send to a request, by their error field: none  *)
(* ("result"), an error object with code and message ("error"), an error   *)
(* object without content ("empty_error").                                 *)
(***************************************************************************)
Responses == {"result", "error", "empty_error"}

\* response.error
Error(response) ==
    CASE response = "result"      -> "None"
      [] response = "error"       -> "{code, message}"
      [] response = "empty_error" -> "{}"

(***************************************************************************)
(* response.result.  literal is the value as Python sees its truth: "None",*)
(* "{}" or a dict with keys, "{...}".  A dict that holds a list of entries *)
(* under one key (tools, resources, prompts) has that key and the entries; *)
(* every other result has key "none" and, when it is the result of a call  *)
(* or a read, the pieces of the text of its content.  An entry is a dict:  *)
(* a key it does not have is "missing".                                    *)
(***************************************************************************)
NoResult == [literal |-> "None", key |-> "none", entries |-> <<>>, content |-> <<>>]

NoEntry ==
    [uri |-> "missing", name |-> "missing", description |-> "missing",
     inputSchema |-> "missing", mimeType |-> "missing", arguments |-> "missing"]

\* The operational calls that return a list of descriptors, and the key of
\* the result they read it from.
ListOperations == {"list_tools", "list_resources", "list_prompts"}

ListKey(operation) ==
    CASE operation = "list_tools"     -> "tools"
      [] operation = "list_resources" -> "resources"
      [] operation = "list_prompts"   -> "prompts"
      [] OTHER                        -> "none"

\* dict.get(key, default) on the value found under the key.
GetOr(value, default) == IF value = "missing" THEN default ELSE value

\* ToolInfo(...) of one entry (client.py 146-152).
ToolInfo(tool_data) ==
    [name |-> GetOr(tool_data.name, ""),
     description |-> GetOr(tool_data.description, ""),
     input_schema |-> GetOr(tool_data.inputSchema, "{}")]

\* ResourceInfo(...) of one entry (client.py 199-206).
ResourceInfo(resource_data) ==
    [uri |-> GetOr(resource_data.uri, ""),
     name |-> GetOr(resource_data.name, ""),
     description |-> GetOr(resource_data.description, "None"),
     mime_type |-> GetOr(resource_data.mimeType, "None")]

\* PromptInfo(...) of one entry (client.py 250-256).
PromptInfo(prompt_data) ==
    [name |-> GetOr(prompt_data.name, ""),
     description |-> GetOr(prompt_data.description, ""),
     arguments |-> GetOr(prompt_data.arguments, "None")]

\* The list a list call builds from response.result (client.py 143-154,
\* 196-208, 247-259): `if response.result and "tools" in response.result`,
\* one descriptor for each entry, in order.
Descriptors(operation, result) ==
    IF Bool(result.literal) /\ result.key = ListKey(operation)
    THEN [i \in 1..Len(result.entries) |->
            CASE operation = "list_tools"     -> ToolInfo(result.entries[i])
              [] operation = "list_resources" -> ResourceInfo(result.entries[i])
              [] operation = "list_prompts"   -> PromptInfo(result.entries[i])]
    ELSE <<>>

\* `response.result or {}` of call_tool, read_resource and get_prompt
\* (client.py 176, 228, 281).
ResultOrEmpty(result) == IF Bool(result.literal) THEN result.literal ELSE "{}"

(***************************************************************************)
(* A Python dict in insertion order: a sequence of [name, conn] entries.   *)
(***************************************************************************)
Keys(d) == [i \in 1..Len(d) |-> d[i].name]

Has(d, n) == \E i \in 1..Len(d) : d[i].name = n

Get(d, n) == d[CHOOSE i \in 1..Len(d) : d[i].name = n].conn

Put(d, n, c) ==
    IF Has(d, n)
    THEN [i \in 1..Len(d) |-> IF d[i].name = n THEN [name |-> n, conn |-> c] ELSE d[i]]
    ELSE Append(d, [name |-> n, conn |-> c])

Del(d, n) == SelectSeq(d, LAMBDA e : e.name # n)

VARIABLES
    connections,          \* MCPClient.connections: server name -> connection
    initialized_servers,  \* MCPClient.initialized_servers
    conns,                \* the connection objects something refers to
    leaked,               \* servers of the open connections nothing refers to
    retired,              \* servers a disconnect_from_server closed (where recorded)
    task,                 \* the operations in progress, and the one just ended
    server,               \* a reference server process (simple_mcp_server.py)
    config,               \* a call of load_config (config.py)
    codec,                \* a message on its way through MCPProtocol
    mcp_connection        \* one connection and its table of pending requests

vars ==
    <<connections, initialized_servers, conns, leaked, retired, task, server, config,
      codec, mcp_connection>>

\* What is not part of the client.
others == <<server, config, codec, mcp_connection>>

(***************************************************************************)
(* A connection object.  state: "none" (no such object), "connecting"      *)
(* (connect() awaited), "failed" (connect() raised), "open", "closed"      *)
(* (disconnect() returned).  dead: the peer is gone (the subprocess died). *)
(* handshake: the initialize exchange on it, in order.                     *)
(***************************************************************************)
NoConnection ==
    [server_name |-> "none", class |-> "none", state |-> "none", dead |-> FALSE,
     handshake |-> <<>>]

\* NoConn names no connection: the value of `connection` before it is bound.
NoConn == MaxConns + 1

\* The name of the next connection object created.
NewConn(cs) ==
    CHOOSE c \in Conns : cs[c].state = "none"
                          /\ \A d \in Conns : d < c => cs[d].state # "none"

\* str() of a Python bool.
Str(b) == IF b THEN "True" ELSE "False"

\* MCPConnection.is_connected: the transport is open and the peer alive.
ConnIsConnected(c) == c.state = "open" /\ ~c.dead

\* A variant of is_connected that takes a server without entry for
\* connected.
IsConnectedDefaultTrue(reg, cs, server_name) ==
    IF Has(reg, server_name) THEN ConnIsConnected(cs[Get(reg, server_name)]) ELSE TRUE

\* MCPClient.is_connected.
IsConnected(reg, cs, server_name) ==
    Has(reg, server_name) /\ ConnIsConnected(cs[Get(reg, server_name)])

\* MCPClient.get_connected_servers.
GetConnectedServers(reg) == Keys(reg)

(***************************************************************************)
(* A task: one call of a public operation.  pc is the await it is          *)
(* suspended at; conn its local `connection`; request the method of the    *)
(* request it passed to send_request, response the Response it got and     *)
(* result its result field;                                                *)
(* server_config the argument of a direct _create_connection; names the    *)
(* copy of the registry's keys disconnect_all iterates over, todo those it *)
(* still has to go through (head: in progress).  What the call did is kept *)
(* until its caller has the result: attempted (names                       *)
(* disconnect_from_server was called on), disconnected (connections it     *)
(* called disconnect() on), swallowed (names whose disconnect error was    *)
(* logged and not raised), outcome, value and listed (the value or the     *)
(* list a synchronous call returned), why (the branch it ended in).        *)
(***************************************************************************)
IdleTask ==
    [pc |-> "idle", op |-> "none", arg |-> "none", conn |-> NoConn,
     request |-> "none", response |-> "none", result |-> NoResult,
     server_config |-> None,
     names |-> <<>>, todo |-> <<>>,
     attempted |-> <<>>, disconnected |-> <<>>, swallowed |-> {},
     outcome |-> "none", value |-> "none", listed |-> <<>>, why |-> "none"]

(***************************************************************************)
(* A request as the reference server reads it from a line of its input:    *)
(* the id, the method, the params (whether the key is "missing", null      *)
(* ("None") or a "dict"), and what the params hold: name, uri, arguments   *)
(* (missing, null or a dict) with format, expression, message and the name *)
(* of a person.  The expression is its characters; an expression that is   *)
(* missing is the empty string (`arguments.get("expression", "")`).        *)
(***************************************************************************)
NoRequest ==
    [id |-> "missing", method |-> "missing", params |-> "missing",
     name |-> "missing", uri |-> "missing", arguments |-> "missing",
     format |-> "missing", expression |-> <<>>, message |-> "missing",
     person |-> "missing"]

\* A line of input: end of input ("eof"), a "blank" line, text that is not
\* JSON ("invalid"), a JSON "list", or a JSON "object", the request.
NoLine == [text |-> "none", request |-> NoRequest]

\* stdio_server at the head of its loop, nothing read yet.  line: the line
\* read last; written: what was printed for it; evaluated: what was passed
\* to eval for it; lines: how many lines were read.
ServerStarted ==
    [pc |-> "running", line |-> NoLine, written |-> <<>>, evaluated |-> <<>>,
     lines |-> 0]

(***************************************************************************)
(* load_config (config.py): the providers, and the state before a call.    *)
(* A dict of providers is a function from the names it has to their data,  *)
(* the data of a provider a record of its keys, "missing" for one it does  *)
(* not have.                                                               *)
(***************************************************************************)
Providers == {"openai", "anthropic", "xai"}

NoData == [api_key |-> "missing", model |-> "missing"]

NoProviders == [provider \in {} |-> NoData]

\* environ: the environment variables set; config_data: the ai_providers of
\* the configuration file found (none without a file); raised: the
\* exception of the call; ai_providers: those of the Config returned.
NotLoaded ==
    [pc |-> "none", environ |-> {}, config_data |-> NoProviders,
     raised |-> "none", ai_providers |-> NoProviders]

(***************************************************************************)
(* MCPProtocol (egile_mcp_client/mcp/protocol.py, not among the source     *)
(* files; from sections 3 and 4.1 of the specification).  A message is a   *)
(* Request (id, method, params), a Notification (method, params) or a      *)
(* Response (id, and result or error); a field it does not have is "None". *)
(***************************************************************************)
NoMessage ==
    [type |-> "None", id |-> "None", method |-> "None", params |-> "None",
     result |-> "None", error |-> "None"]

\* message: the message built; wire_text: what serialize_message made of
\* it, the members of one JSON object in order; parsed: what parse_message
\* made of that; raised: the error of parse_message.
NoCodec ==
    [pc |-> "none", message |-> NoMessage, wire_text |-> <<>>,
     parsed |-> NoMessage, raised |-> "none"]

(***************************************************************************)
(* A connection (egile_mcp_client/mcp/connection.py, not among the source  *)
(* files; from sections 3 and 4.3 of the specification).  slots: for each  *)
(* request id, "none" (not sent), "pending", or how it was resolved;       *)
(* resolved_by: the id of the Response that resolved it; responses: how    *)
(* many Responses were received, received: the id of the last one,         *)
(* dropped: how many were discarded.  Id 0 is an id no request has.        *)
(***************************************************************************)
MaxRequests == 3

RequestIds == 1..MaxRequests

MaxResponses == 4

Connected ==
    [state |-> "connected",
     slots |-> [id \in RequestIds |-> "none"],
     resolved_by |-> [id \in RequestIds |-> 0],
     responses |-> 0, received |-> 0, dropped |-> 0]

\* MCPClient.__init__.
Init ==
    /\ connections = <<>>
    /\ initialized_servers = {}
    /\ conns = [c \in Conns |-> NoConnection]
    /\ leaked = {}
    /\ retired = {}
    /\ task = [t \in Tasks |-> IdleTask]
    /\ server = ServerStarted
    /\ config = NotLoaded
    /\ codec = NoCodec
    /\ mcp_connection = Connected

(***************************************************************************)
(* The code of a task is written as operators from state to state, on the  *)
(* record st: the client's two fields, the connection objects, and `me`,   *)
(* the running task.                                                       *)
(***************************************************************************)
State(t) ==
    [connections |-> connections, initialized_servers |-> initialized_servers,
     conns |-> conns, me |-> task[t]]

\* The public operation returns to its caller.
Returned(st, reason) ==
    [st EXCEPT !.me.pc = "done", !.me.outcome = "returned", !.me.why = reason]

\* The public operation raises to its caller.
Raised(st, reason) ==
    [st EXCEPT !.me.pc = "done", !.me.outcome = "raised", !.me.why = reason]

\* An inner function returns normally to the function that called it.
Return(st, reason) == [st EXCEPT !.me.pc = "return", !.me.why = reason]

\* The task suspends at an await.
Await(st, at) == [st EXCEPT !.me.pc = at]

\* A handshake message sent on connection c, or the reply to it received.
Handshake(st, c, event) == [st EXCEPT !.conns[c].handshake = Append(@, event)]

\* self.connections[server_name] = connection (client.py 70).
Register(st, server_name, c) == [st EXCEPT !.connections = Put(@, server_name, c)]

\* A variant of MarkInitialized that forgets to record the handshake.
MarkInitializedForgotten(st, server_name) == st

\* self.initialized_servers.add(server_name) (client.py 122).
MarkInitialized(st, server_name) ==
    [st EXCEPT !.initialized_servers = @ \cup {server_name}]

(***************************************************************************)
(* _initialize_server up to its await of send_request (client.py 100-113). *)
(***************************************************************************)
InitializeServer(st, server_name) ==
    IF ~Has(st.connections, server_name)
    THEN Raised(st, "not_connected")
    ELSE LET c == Get(st.connections, server_name) IN
         Await(Handshake([st EXCEPT !.me.conn = c], c, "initialize"),
               "await_initialize")

\* A variant of connect_to_server that registers the connection before
\* its transport is open.
ConnectToServerRegistersFirst(st, server_name) ==
    LET server_config == FindServerConfig(server_name) IN
    IF server_config = None
    THEN Raised(st, "not_found")
    ELSE IF Has(st.connections, server_name)
    THEN Return(st, "already_connected")
    ELSE IF CreateConnection(server_config) = "ValueError"
    THEN Raised(st, "create_failed")
    ELSE Await(Register([st EXCEPT !.conns[NewConn(st.conns)] = [NoConnection EXCEPT
                                       !.server_name = server_name,
                                       !.class = CreateConnection(server_config),
                                       !.state = "connecting"],
                                   !.me.conn = NewConn(st.conns)],
                        server_name, NewConn(st.conns)),
               "await_connect")

\* A variant of connect_to_server that looks at the registry before the
\* configuration.
ConnectToServerChecksRegistryFirst(st, server_name) ==
    LET server_config == FindServerConfig(server_name) IN
    IF Has(st.connections, server_name)
    THEN Return(st, "already_connected")
    ELSE IF server_config = None
    THEN Raised(st, "not_found")
    ELSE IF CreateConnection(server_config) = "ValueError"
    THEN Raised(st, "create_failed")
    ELSE Await([st EXCEPT !.conns[NewConn(st.conns)] = [NoConnection EXCEPT
                               !.server_name = server_name,
                               !.class = CreateConnection(server_config),
                               !.state = "connecting"],
                          !.me.conn = NewConn(st.conns)],
               "await_connect")

\* A variant of connect_to_server without the already-connected check.
ConnectToServerAlwaysCreates(st, server_name) ==
    LET server_config == FindServerConfig(server_name) IN
    IF server_config = None
    THEN Raised(st, "not_found")
    ELSE IF CreateConnection(server_config) = "ValueError"
    THEN Raised(st, "create_failed")
    ELSE Await([st EXCEPT !.conns[NewConn(st.conns)] = [NoConnection EXCEPT
                               !.server_name = server_name,
                               !.class = CreateConnection(server_config),
                               !.state = "connecting"],
                          !.me.conn = NewConn(st.conns)],
               "await_connect")

\* _initialize_server after its await of send_request (client.py 113-120):
\* `if response.error` raises; otherwise the initialized notification is
\* sent.  The handshake of the connection records what was received.
InitializeFinish(st, r) ==
    IF r = "raise"
    THEN Raised(st, "initialize_raised")
    ELSE LET received == Handshake([st EXCEPT !.me.response = r], st.me.conn,
                                   IF Error(r) = "None" THEN "initialize:result"
                                   ELSE "initialize:error")
         IN  IF Bool(Error(r))
             THEN Raised(received, "initialize_error")
             ELSE Await(received, "await_notification")

(***************************************************************************)
(* connect_to_server up to its await of connection.connect()               *)
(* (client.py 52-69).                                                      *)
(***************************************************************************)
ConnectToServer(st, server_name) ==
    LET server_config == FindServerConfig(server_name) IN
    IF server_config = None
    THEN Raised(st, "not_found")
    ELSE IF Has(st.connections, server_name)
    THEN Return(st, "already_connected")
    ELSE IF CreateConnection(server_config) = "ValueError"
    THEN Raised(st, "create_failed")
    ELSE Await([st EXCEPT !.conns[NewConn(st.conns)] = [NoConnection EXCEPT
                               !.server_name = server_name,
                               !.class = CreateConnection(server_config),
                               !.state = "connecting"],
                          !.me.conn = NewConn(st.conns)],
               "await_connect")

(***************************************************************************)
(* An operational call from `connection = self.connections[server_name]`   *)
(* to its await of send_request (client.py 134-138, 167-171, 187-191,      *)
(* 219-223, 239-243, 272-276).                                             *)
(***************************************************************************)
SendOperational(st, operation, server_name) ==
    IF ~Has(st.connections, server_name)
    THEN Raised(st, "KeyError")
    ELSE LET c == Get(st.connections, server_name) IN
         Await([st EXCEPT !.me.conn = c, !.me.request = Method(operation)],
               "await_operation")

\* A variant of the end of an operational call that drops the session of
\* the server when the Response carries an error.
OperationFinishDropsSession(st, r) ==
    IF r = "raise"
    THEN Raised(st, "request_raised")
    ELSE IF Bool(Error(r))
    THEN Raised([st EXCEPT !.me.response = r,
                           !.connections = Del(@, st.me.arg),
                           !.initialized_servers = @ \ {st.me.arg}],
                "error_response")
    ELSE Returned([st EXCEPT !.me.response = r,
                             !.me.listed = Descriptors(st.me.op, st.me.result),
                             !.me.value = IF st.me.op \in ListOperations THEN "none"
                                          ELSE ResultOrEmpty(st.me.result)],
                  "result")

\* A variant of the end of an operational call that logs the exception of
\* send_request and returns an empty result.
OperationFinishSwallows(st, r) ==
    IF r = "raise"
    THEN Returned([st EXCEPT !.me.value = "{}"], "result")
    ELSE IF Bool(Error(r))
    THEN Raised([st EXCEPT !.me.response = r], "error_response")
    ELSE Returned([st EXCEPT !.me.response = r,
                             !.me.listed = Descriptors(st.me.op, st.me.result),
                             !.me.value = IF st.me.op \in ListOperations THEN "none"
                                          ELSE ResultOrEmpty(st.me.result)],
                  "result")

\* An operational call after its await of send_request (client.py 138-158,
\* 171-180, 191-212, 223-232, 243-263, 276-285): `if response.error`
\* raises, otherwise the result is returned; an exception of send_request
\* is logged and raised again.
OperationFinish(st, r) ==
    IF r = "raise"
    THEN Raised(st, "request_raised")
    ELSE IF Bool(Error(r))
    THEN Raised([st EXCEPT !.me.response = r], "error_response")
    ELSE Returned([st EXCEPT !.me.response = r,
                             !.me.listed = Descriptors(st.me.op, st.me.result),
                             !.me.value = IF st.me.op \in ListOperations THEN "none"
                                          ELSE ResultOrEmpty(st.me.result)],
                  "result")

\* connect_to_server has come back to the operation that called it: the
\* public connect_to_server returns, an operational call goes on.
AfterConnect(st) ==
    IF st.me.pc # "return"
    THEN st
    ELSE IF st.me.op = "connect_to_server"
    THEN Returned(st, st.me.why)
    ELSE SendOperational(st, st.me.op, st.me.arg)

\* A variant of the list calls that answers from a cache when the server
\* is connected, without a request.
OperationalCached(st, operation, server_name) ==
    IF ~Has(st.connections, server_name)
    THEN AfterConnect(ConnectToServer(st, server_name))
    ELSE IF operation \in ListOperations
    THEN Returned([st EXCEPT !.me.listed = st.me.listed], "result")
    ELSE SendOperational(st, operation, server_name)

\* A variant of the operational calls that repeats the handshake on the
\* registered connection before every request.
OperationalInitializesAgain(st, operation, server_name) ==
    IF ~Has(st.connections, server_name)
    THEN AfterConnect(ConnectToServer(st, server_name))
    ELSE InitializeServer(st, server_name)

\* list_tools, call_tool, list_resources, read_resource, list_prompts,
\* get_prompt up to the first await: lazy connect when the name has no entry
\* (client.py 131-132, 164-165, 184-185, 216-217, 236-237, 269-270).
Operational(st, operation, server_name) ==
    IF ~Has(st.connections, server_name)
    THEN AfterConnect(ConnectToServer(st, server_name))
    ELSE SendOperational(st, operation, server_name)

\* A variant of disconnect_from_server without the not-connected check:
\* the missing entry is an error.
DisconnectFromServerUnguarded(st, server_name) ==
    IF ~Has(st.connections, server_name)
    THEN Raised(st, "KeyError")
    ELSE LET c == Get(st.connections, server_name) IN
         Await([st EXCEPT !.me.conn = c, !.me.disconnected = Append(@, c)],
               "await_disconnect")

(***************************************************************************)
(* disconnect_from_server up to its await of connection.disconnect()       *)
(* (client.py 81-88).                                                      *)
(***************************************************************************)
DisconnectFromServer(st, server_name) ==
    IF ~Has(st.connections, server_name)
    THEN Return(st, "not_connected")
    ELSE LET c == Get(st.connections, server_name) IN
         Await([st EXCEPT !.me.conn = c, !.me.disconnected = Append(@, c)],
               "await_disconnect")

\* A variant of the end of disconnect_from_server that keeps the handshake
\* status of the server.
DisconnectFinishKeepsInitialized(st, server_name, r) ==
    IF r = "raise"
    THEN Return([st EXCEPT !.me.swallowed = @ \cup {server_name}], "disconnect_raised")
    ELSE LET closed == [st EXCEPT !.conns[st.me.conn].state = "closed"] IN
         IF ~Has(closed.connections, server_name)
         THEN Return([closed EXCEPT !.me.swallowed = @ \cup {server_name}], "KeyError")
         ELSE Return([closed EXCEPT !.connections = Del(@, server_name)],
                     "disconnected")

\* A variant of the end of disconnect_from_server that closes the
\* connection and keeps its registry entry.
DisconnectFinishKeepsEntry(st, server_name, r) ==
    IF r = "raise"
    THEN Return([st EXCEPT !.me.swallowed = @ \cup {server_name}], "disconnect_raised")
    ELSE Return([st EXCEPT !.conns[st.me.conn].state = "closed",
                           !.initialized_servers = @ \ {server_name}],
                "disconnected")

\* A variant of the end of disconnect_from_server that forgets the
\* handshake status of every server.
DisconnectFinishClearsAll(st, server_name, r) ==
    IF r = "raise"
    THEN Return([st EXCEPT !.me.swallowed = @ \cup {server_name}], "disconnect_raised")
    ELSE LET closed == [st EXCEPT !.conns[st.me.conn].state = "closed"] IN
         IF ~Has(closed.connections, server_name)
         THEN Return([closed EXCEPT !.me.swallowed = @ \cup {server_name}], "KeyError")
         ELSE Return([closed EXCEPT
                         !.connections = Del(@, server_name),
                         !.initialized_servers = {}],
                     "disconnected")

\* A variant of the end of disconnect_from_server that lets the exception
\* of disconnect() out.
DisconnectFinishPropagates(st, server_name, r) ==
    IF r = "raise"
    THEN Raised(st, "disconnect_raised")
    ELSE LET closed == [st EXCEPT !.conns[st.me.conn].state = "closed"] IN
         IF ~Has(closed.connections, server_name)
         THEN Return([closed EXCEPT !.me.swallowed = @ \cup {server_name}], "KeyError")
         ELSE Return([closed EXCEPT
                         !.connections = Del(@, server_name),
                         !.initialized_servers = @ \ {server_name}],
                     "disconnected")

\* A variant of the end of disconnect_from_server that closes the
\* connection and keeps the session for the next connect.
DisconnectFinishKeepsSession(st, server_name, r) ==
    IF r = "raise"
    THEN Return([st EXCEPT !.me.swallowed = @ \cup {server_name}], "disconnect_raised")
    ELSE Return([st EXCEPT !.conns[st.me.conn].state = "closed"], "disconnected")

\* A variant of the end of disconnect_from_server that removes the entry
\* and the handshake status also when disconnect() raised.
DisconnectFinishDropsOnError(st, server_name, r) ==
    IF r = "raise"
    THEN Return([st EXCEPT !.me.swallowed = @ \cup {server_name},
                           !.connections = Del(@, server_name),
                           !.initialized_servers = @ \ {server_name}],
                "disconnect_raised")
    ELSE LET closed == [st EXCEPT !.conns[st.me.conn].state = "closed"] IN
         IF ~Has(closed.connections, server_name)
         THEN Return([closed EXCEPT !.me.swallowed = @ \cup {server_name}], "KeyError")
         ELSE Return([closed EXCEPT
                         !.connections = Del(@, server_name),
                         !.initialized_servers = @ \ {server_name}],
                     "disconnected")

\* disconnect_from_server after the await (client.py 88-93): the entry is
\* deleted and the handshake status discarded; an exception (of
\* disconnect(), or the KeyError of `del` when the entry is gone) is logged
\* and not raised.
DisconnectFinish(st, server_name, r) ==
    IF r = "raise"
    THEN Return([st EXCEPT !.me.swallowed = @ \cup {server_name}], "disconnect_raised")
    ELSE LET closed == [st EXCEPT !.conns[st.me.conn].state = "closed"] IN
         IF ~Has(closed.connections, server_name)
         THEN Return([closed EXCEPT !.me.swallowed = @ \cup {server_name}], "KeyError")
         ELSE Return([closed EXCEPT
                         !.connections = Del(@, server_name),
                         !.initialized_servers = @ \ {server_name}],
                     "disconnected")

\* disconnect_all: disconnect_from_server on each name of a copy of the keys
\* (client.py 95-98), from `names` on.
RECURSIVE DisconnectAll(_, _)
DisconnectAll(st, names) ==
    IF names = <<>>
    THEN Returned([st EXCEPT !.me.todo = <<>>], "disconnected_all")
    ELSE LET called == DisconnectFromServer(
                          [st EXCEPT !.me.todo = names,
                                     !.me.attempted = Append(@, Head(names))],
                          Head(names))
         IN  IF called.me.pc = "return"
             THEN DisconnectAll(called, Tail(names))
             ELSE called

\* disconnect_from_server has come back: the public one returns,
\* disconnect_all goes on with the next name.
AfterDisconnect(st) ==
    IF st.me.pc # "return"
    THEN st
    ELSE IF st.me.op = "disconnect_all"
    THEN DisconnectAll(st, Tail(st.me.todo))
    ELSE Returned(st, st.me.why)

(***************************************************************************)
(* The reference server (src/simple_mcp_server.py): its catalogs, as the   *)
(* entries of the results of tools/list, resources/list and prompts/list.  *)
(***************************************************************************)
tools ==
    << [NoEntry EXCEPT !.name = "get_current_time",
                       !.description = "Get the current date and time",
                       !.inputSchema = "{type, properties}"],
       [NoEntry EXCEPT !.name = "calculate",
                       !.description = "Perform basic arithmetic calculations",
                       !.inputSchema = "{type, properties, required}"],
       [NoEntry EXCEPT !.name = "echo",
                       !.description = "Echo back the input message",
                       !.inputSchema = "{type, properties, required}"] >>

resources ==
    << [NoEntry EXCEPT !.uri = "memory://system_info",
                       !.name = "System Information",
                       !.description = "Basic system information",
                       !.mimeType = "application/json"],
       [NoEntry EXCEPT !.uri = "memory://server_status",
                       !.name = "Server Status",
                       !.description = "Current server status and statistics",
                       !.mimeType = "application/json"] >>

prompts ==
    << [NoEntry EXCEPT !.name = "greeting",
                       !.description = "Generate a personalized greeting",
                       !.arguments = "[{name, description, required}]"] >>

\* The result of the reference server's Response to a list request
\* (simple_mcp_server.py 117-118, 192-197, 252-257); for the other requests,
\* a result with content.
ReferenceResult(method) ==
    CASE method = "tools/list" ->
            [NoResult EXCEPT !.literal = "{...}", !.key = "tools", !.entries = tools]
      [] method = "resources/list" ->
            [NoResult EXCEPT !.literal = "{...}", !.key = "resources",
                             !.entries = resources]
      [] method = "prompts/list" ->
            [NoResult EXCEPT !.literal = "{...}", !.key = "prompts", !.entries = prompts]
      [] OTHER ->
            [NoResult EXCEPT !.literal = "{...}", !.content = <<"text">>]

(***************************************************************************)
(* Any server: the results a peer can put in its Response to a list        *)
(* request.  An entry has or lacks each of its keys; a list has at most    *)
(* MaxEntries entries.                                                     *)
(***************************************************************************)
MaxEntries == 2

Entries(key) ==
    CASE key = "tools" ->
            {[NoEntry EXCEPT !.name = name, !.description = description,
                             !.inputSchema = inputSchema] :
                name \in {"missing", "calculate", "echo"},
                description \in {"missing", "Echo back the input message"},
                inputSchema \in {"missing", "{type, properties}"}}
      [] key = "resources" ->
            {[NoEntry EXCEPT !.uri = uri, !.name = name, !.description = description,
                             !.mimeType = mimeType] :
                uri \in {"missing", "memory://system_info"},
                name \in {"missing", "System Information"},
                description \in {"missing", "Basic system information"},
                mimeType \in {"missing", "application/json"}}
      [] key = "prompts" ->
            {[NoEntry EXCEPT !.name = name, !.description = description,
                             !.arguments = arguments] :
                name \in {"missing", "greeting", "farewell"},
                description \in {"missing", "Generate a personalized greeting"},
                arguments \in {"missing", "[{name, description, required}]"}}

Lists(key) == UNION {[1..n -> Entries(key)] : n \in 0..MaxEntries}

\* None, an empty dict, a dict without the list key, a dict with a list
\* under one of the list keys.
Results ==
    {NoResult,
     [NoResult EXCEPT !.literal = "{}"],
     [NoResult EXCEPT !.literal = "{...}"]}
    \cup UNION {{[NoResult EXCEPT !.literal = "{...}", !.key = key, !.entries = entries] :
                    entries \in Lists(key)} :
                 key \in {"tools", "resources", "prompts"}}

\* The result of a peer's Response to the request task t awaits: that of
\* the reference server, or for "any" server any result that has no list
\* or the list the request asks for.
PeerResults(peer, method) ==
    IF peer = "reference"
    THEN {ReferenceResult(method)}
    ELSE {result \in Results :
            result.key \in {"none"} \cup {ListKey(o) : o \in {p \in ListOperations :
                                                               Method(p) = method}}}

(***************************************************************************)
(* Actions: one uninterrupted stretch of task t each.                      *)
(***************************************************************************)
\* The connection objects something refers to: the registry, the local
\* variable of a task, what a task remembers.
RegistryConns(reg) == {reg[i].conn : i \in 1..Len(reg)}

TaskConns(me) ==
    {me.conn} \cup {me.disconnected[i] : i \in 1..Len(me.disconnected)}

Referenced(reg, tasks) ==
    RegistryConns(reg) \cup UNION {TaskConns(tasks[u]) : u \in Tasks}

\* A connection object nothing refers to is gone.
Collect(reg, cs, tasks) ==
    [c \in Conns |-> IF c \in Referenced(reg, tasks) THEN cs[c] ELSE NoConnection]

\* The servers of the connection objects that are gone and were never
\* closed: their transport stays open and nothing can close it.
Leaks(reg, cs, tasks) ==
    {cs[c].server_name : c \in {d \in Conns : d \notin Referenced(reg, tasks)
                                               /\ cs[d].state = "open"}}

\* The stretch of task t ends in state st: what it leaves in the client.
Step(t, st) ==
    /\ connections' = st.connections
    /\ initialized_servers' = st.initialized_servers
    /\ conns' = Collect(st.connections, st.conns, [task EXCEPT ![t] = st.me])
    /\ leaked' = leaked \cup Leaks(st.connections, st.conns, [task EXCEPT ![t] = st.me])
    /\ task' = [task EXCEPT ![t] = st.me]
    /\ UNCHANGED others

\* The stretch of task t ends in state st.
Commit(t, st) == Step(t, st) /\ UNCHANGED retired

\* No operation is in progress.
Quiescent == \A t \in Tasks : task[t].pc = "idle"

\* An operation has ended and its caller does not have the result yet.
Ended == \E t \in Tasks : task[t].pc = "done"

\* A caller with no operation in progress can call one.
Callable(t) ==
    /\ ~Ended
    /\ task[t].pc = "idle"

\* Task t is the first caller with no operation in progress (callers that
\* can make the same calls are interchangeable).
First(t) == \A u \in Tasks : u < t => task[u].pc # "idle"

\* Task t is called with an operation and its argument.
Called(t, operation, server_name) ==
    [State(t) EXCEPT !.me.op = operation, !.me.arg = server_name]

\* A call that creates a connection needs a name for it.
CanConnect(server_name) ==
    IF FindServerConfig(server_name) = None \/ Has(connections, server_name)
    THEN TRUE
    ELSE IF CreateConnection(FindServerConfig(server_name)) = "ValueError"
    THEN TRUE
    ELSE \E c \in Conns : conns[c].state = "none"

CallConnect(t, server_name) ==
    /\ Callable(t)
    /\ CanConnect(server_name)
    /\ Commit(t, AfterConnect(ConnectToServer(
                    Called(t, "connect_to_server", server_name), server_name)))

CallOperation(t, operation, server_name) ==
    /\ Callable(t)
    /\ CanConnect(server_name)
    /\ Commit(t, Operational(Called(t, operation, server_name),
                             operation, server_name))

CallDisconnect(t, server_name) ==
    /\ Callable(t)
    /\ Commit(t, AfterDisconnect(DisconnectFromServer(
                    [Called(t, "disconnect_from_server", server_name)
                        EXCEPT !.me.attempted = <<server_name>>],
                    server_name)))

CallDisconnectAll(t) ==
    /\ Callable(t)
    /\ Commit(t, DisconnectAll([Called(t, "disconnect_all", "all")
                                    EXCEPT !.me.names = Keys(connections)],
                                Keys(connections)))

\* is_connected(server_name) (client.py 291-296): no await, one stretch.
CallIsConnected(t, server_name) ==
    /\ Callable(t)
    /\ LET st == Called(t, "is_connected", server_name) IN
       Commit(t, Returned([st EXCEPT !.me.value =
                               Str(IsConnected(st.connections, st.conns, server_name))],
                          "is_connected"))

\* get_connected_servers() (client.py 287-289): no await, one stretch.
CallGetConnectedServers(t) ==
    /\ Callable(t)
    /\ LET st == Called(t, "get_connected_servers", "none") IN
       Commit(t, Returned([st EXCEPT !.me.listed = GetConnectedServers(st.connections)],
                          "get_connected_servers"))

\* The configurations _create_connection is given directly: every server
\* type, with and without url and command.
ServerTypes == {"http", "websocket", "stdio", "invalid"}

ServerConfigs ==
    {[name |-> "test", type |-> type, url |-> url, command |-> command] :
        type \in ServerTypes,
        url \in {"None", "", "http://localhost:8000"},
        command \in {"None", "[]", "[python, test.py]"}}

\* _create_connection(server_config) called on its own, as the tests do
\* (client.py 35-50): the connection it returns is not registered.
CallCreateConnection(t, server_config) ==
    /\ Callable(t)
    /\ LET st == [Called(t, "_create_connection", "none")
                    EXCEPT !.me.server_config = server_config]
       IN  Commit(t, IF CreateConnection(server_config) = "ValueError"
                     THEN Raised(st, "ValueError")
                     ELSE Returned([st EXCEPT !.me.value = CreateConnection(server_config)],
                                   "created"))

\* `await connection.connect()` ends (client.py 69-73): on success the
\* connection is registered and _initialize_server runs.
ConnectReturns(t, r) ==
    /\ ~Ended
    /\ task[t].pc = "await_connect"
    /\ r \in {"ok", "raise"}
    /\ LET st == State(t) IN
       Commit(t, IF r = "raise"
                 THEN Raised([st EXCEPT !.conns[st.me.conn].state = "failed"],
                             "connect_raised")
                 ELSE InitializeServer(
                         Register([st EXCEPT !.conns[st.me.conn].state = "open"],
                                  st.me.arg, st.me.conn),
                         st.me.arg))

\* `await connection.send_request(init_request)` ends (client.py 113-120):
\* after a Response without error the initialized notification is sent.
InitializeResponds(t, r) ==
    /\ ~Ended
    /\ task[t].pc = "await_initialize"
    /\ r \in Responses \cup {"raise"}
    /\ r # "raise" => ConnIsConnected(conns[task[t].conn])
    /\ Commit(t, InitializeFinish(State(t), r))

\* `await connection.send_notification(...)` ends (client.py 120-122, 75):
\* the name joins initialized_servers and connect_to_server returns.
NotificationReturns(t, r) ==
    /\ ~Ended
    /\ task[t].pc = "await_notification"
    /\ r \in {"ok", "raise"}
    /\ r = "ok" => ConnIsConnected(conns[task[t].conn])
    /\ LET st == State(t) IN
       Commit(t, IF r = "raise"
                 THEN Raised(st, "notification_raised")
                 ELSE AfterConnect(Return(
                         MarkInitialized(Handshake(st, st.me.conn, "initialized"),
                                         st.me.arg),
                         "connected")))

\* `await connection.send_request(request)` of an operational call ends
\* (client.py 138-158, 171-180, 191-212, 223-232, 243-263, 276-285).
OperationResponds(t, r, result) ==
    /\ ~Ended
    /\ task[t].pc = "await_operation"
    /\ r \in Responses \cup {"raise"}
    /\ r # "raise" => ConnIsConnected(conns[task[t].conn])
    /\ r # "result" => result = NoResult
    /\ Commit(t, OperationFinish([State(t) EXCEPT !.me.result = result], r))

\* `await self.connections[server_name].disconnect()` ends (client.py 88-98).
DisconnectResumes(t, r) ==
    /\ ~Ended
    /\ task[t].pc = "await_disconnect"
    /\ r \in {"ok", "raise"}
    /\ LET st == State(t)
           server_name == IF st.me.op = "disconnect_all" THEN Head(st.me.todo)
                          ELSE st.me.arg
       IN  Step(t, AfterDisconnect(DisconnectFinish(st, server_name, r)))

DisconnectReturns(t, r) == DisconnectResumes(t, r) /\ UNCHANGED retired

\* The same, where the name of a server whose connection the call closed
\* and removed from the registry is recorded.
DisconnectRecorded(t, r) ==
    /\ DisconnectResumes(t, r)
    /\ retired' = IF task'[t].why = "disconnected"
                  THEN retired \cup {task[t].arg}
                  ELSE retired

\* The caller of task t has the result of the operation: the task is ready
\* for its caller's next call.  (This is the first step after an operation
\* ends: what the operation did is looked at in the state before it.)
Result(t) ==
    /\ task[t].pc = "done"
    /\ task' = [task EXCEPT ![t] = IdleTask]
    /\ conns' = Collect(connections, conns, [task EXCEPT ![t] = IdleTask])
    /\ leaked' = leaked \cup Leaks(connections, conns, [task EXCEPT ![t] = IdleTask])
    /\ UNCHANGED <<connections, initialized_servers, retired>>
    /\ UNCHANGED others

\* The environment: the peer of an open connection goes away (the
\* subprocess exits, the server closes the socket).
Die(c) ==
    /\ ~Ended
    /\ conns[c].state = "open"
    /\ ~conns[c].dead
    /\ conns' = [conns EXCEPT ![c].dead = TRUE]
    /\ UNCHANGED <<connections, initialized_servers, leaked, retired, task>>
    /\ UNCHANGED others

(***************************************************************************)
(* Specifications.                                                         *)
(***************************************************************************)
\* A caller invokes an operation on one server, one of `names`, an
\* operational call being one of `operations`.
ServerCall(t, names, operations) ==
    \/ \E server_name \in names : CallConnect(t, server_name)
    \/ \E operation \in operations, server_name \in names :
          CallOperation(t, operation, server_name)
    \/ \E server_name \in names : CallDisconnect(t, server_name)
    \/ \E server_name \in names : CallIsConnected(t, server_name)

\* A caller invokes an operation.
Call(t, names, operations) ==
    \/ ServerCall(t, names, operations)
    \/ CallDisconnectAll(t)
    \/ CallGetConnectedServers(t)

\* An awaited connection method other than disconnect() returns or raises,
\* and the task runs on to its next await or to its end, or its caller takes
\* the result; the server at the other end is `peer`.
Continue(t, peer) ==
    \/ \E r \in {"ok", "raise"} : ConnectReturns(t, r)
    \/ \E r \in Responses \cup {"raise"} : InitializeResponds(t, r)
    \/ \E r \in {"ok", "raise"} : NotificationReturns(t, r)
    \/ \E r \in Responses \cup {"raise"} :
          \E result \in (IF r = "result" /\ task[t].pc = "await_operation"
                         THEN PeerResults(peer, task[t].request)
                         ELSE {NoResult}) :
             OperationResponds(t, r, result)
    \/ Result(t)

\* An awaited connection method returns or raises, and the task runs on to
\* its next await or to its end; the server at the other end is `peer`.
ResumeWith(t, peer) ==
    \/ Continue(t, peer)
    \/ \E r \in {"ok", "raise"} : DisconnectReturns(t, r)

\* The same, the servers being reference servers.
Resume(t) == ResumeWith(t, "reference")

\* One caller: an operation is called only when the previous one has ended.
NextSeq ==
    \/ \E t \in Tasks :
          (Quiescent /\ First(t) /\ Call(t, ServerNames, Operations)) \/ Resume(t)
    \/ \E t \in Tasks, server_config \in ServerConfigs :
          Quiescent /\ First(t) /\ CallCreateConnection(t, server_config)
    \/ \E c \in Conns : Die(c)

SeqSpec == Init /\ [][NextSeq]_vars

\* Several callers: any interleaving of the tasks at their awaits.  The
\* callers contend for one configured server, with one of the calls that
\* return a list and one of those that return a dict (the six operational
\* calls differ in nothing but their request and the shape of the result).
ContendedNames == ServerNames \ {"http_server"}

ContendedOperations == {"list_tools", "call_tool"}

Next ==
    \/ \E t \in Tasks :
          (First(t) /\ Call(t, ContendedNames, ContendedOperations)) \/ Resume(t)
    \/ \E c \in Conns : Die(c)

Spec == Init /\ [][Next]_vars

\* One caller that connects to test_server, lists what it offers and
\* disconnects, the server being any server.
NextList ==
    \/ \E t \in Tasks :
          \/ Quiescent /\ First(t) /\ ServerCall(t, {"test_server"}, ListOperations)
          \/ ResumeWith(t, "any")
    \/ \E c \in Conns : Die(c)

ListSpec == Init /\ [][NextList]_vars

\* One caller for each server that can be connected, working on that
\* server only (and listing the connected servers).
IndepServers == <<"test_server", "http_server">>

IndepTasks == {t \in Tasks : t <= Len(IndepServers)}

ServerOf(t) == IndepServers[t]

NextIndep ==
    \/ \E t \in IndepTasks :
          \/ ServerCall(t, {ServerOf(t)}, ContendedOperations)
          \/ CallGetConnectedServers(t)
          \/ Resume(t)
    \/ \E c \in Conns : Die(c)

IndepSpec == Init /\ [][NextIndep]_vars

\* The same, where the connections of http_server eventually answer (every
\* method awaited on them returns or raises) and every caller takes the
\* result of its call, while a response of test_server may never come.
FairIndepSpec ==
    /\ IndepSpec
    /\ \A t \in Tasks : WF_vars(Result(t))
    /\ \A t \in {u \in IndepTasks : ServerOf(u) = "http_server"} : SF_vars(Resume(t))

\* One caller, and every awaited connection method eventually returns or
\* raises: a suspended task is eventually resumed.
FairSeqSpec == SeqSpec /\ \A t \in Tasks : WF_vars(Resume(t))

\* Two callers of one server: one connects and calls a tool, the other
\* disconnects the server and asks whether it is connected.
CancelRoles == <<"caller", "closer">>

CancelTasks == {t \in Tasks : t <= Len(CancelRoles)}

NextCancel ==
    \/ \E t \in CancelTasks :
          \/ CancelRoles[t] = "caller" /\ CallConnect(t, "test_server")
          \/ CancelRoles[t] = "caller" /\ CallOperation(t, "call_tool", "test_server")
          \/ CancelRoles[t] = "closer" /\ CallDisconnect(t, "test_server")
          \/ CancelRoles[t] = "closer" /\ CallIsConnected(t, "test_server")
          \/ Resume(t)
    \/ \E c \in Conns : Die(c)

CancelSpec == Init /\ [][NextCancel]_vars

\* The same, where every awaited connection method eventually returns or
\* raises and every caller takes the result of its call.
FairCancelSpec ==
    /\ CancelSpec
    /\ \A t \in Tasks : WF_vars(Result(t)) /\ SF_vars(Resume(t))

\* One caller that connects to test_server, calls a tool on it and
\* disconnects it, again and again; the servers whose connection a
\* disconnect_from_server closed and removed are recorded.
NextLifecycle ==
    \/ \E t \in Tasks :
          \/ Quiescent /\ First(t) /\ ServerCall(t, {"test_server"}, {"call_tool"})
          \/ Continue(t, "reference")
          \/ \E r \in {"ok", "raise"} : DisconnectRecorded(t, r)
    \/ \E c \in Conns : Die(c)

LifecycleSpec == Init /\ [][NextLifecycle]_vars

(***************************************************************************)
(* The reference server (src/simple_mcp_server.py): handle_request and the *)
(* loop of stdio_server.  What a call of handle_request did is a record:   *)
(* raised, the exception it raised ("none": it returned); keys, the keys   *)
(* of the dict it returned (none: it returned None); id, result, and code  *)
(* and message of the error; evaluated, the expressions it passed to eval. *)
(* A text is the sequence of its pieces.                                   *)
(***************************************************************************)
NoResponse ==
    [raised |-> "none", keys |-> {}, id |-> "None", result |-> NoResult,
     code |-> 0, message |-> <<>>, evaluated |-> <<>>]

Raises(exception) == [NoResponse EXCEPT !.raised = exception]

ResultResponse(request_id, content) ==
    [NoResponse EXCEPT !.keys = {"jsonrpc", "id", "result"}, !.id = request_id,
                       !.result = [NoResult EXCEPT !.literal = "{...}",
                                                   !.content = content]]

ListResponse(request_id, method) ==
    [NoResponse EXCEPT !.keys = {"jsonrpc", "id", "result"}, !.id = request_id,
                       !.result = ReferenceResult(method)]

ErrorResponse(request_id, code, message) ==
    [NoResponse EXCEPT !.keys = {"jsonrpc", "id", "error"}, !.id = request_id,
                       !.code = code, !.message = message]

\* allowed_chars (simple_mcp_server.py 154).
allowed_chars ==
    {"0", "1", "2", "3", "4", "5", "6", "7", "8", "9",
     "+", "-", "*", "/", ".", "(", ")", " "}

\* The expressions the calculate tool is called with: "", "2", "2 + 3 * 4",
\* "1/0", "(", "import os", "2+x", "abs(1)".
Expressions ==
    {<<>>,
     <<"2">>,
     <<"2", " ", "+", " ", "3", " ", "*", " ", "4">>,
     <<"1", "/", "0">>,
     <<"(">>,
     <<"i", "m", "p", "o", "r", "t", " ", "o", "s">>,
     <<"2", "+", "x">>,
     <<"a", "b", "s", "(", "1", ")">>}

\* Python's eval of an expression: str() of its value, or the exception.
Eval(expression) ==
    CASE expression = <<"2">> -> "2"
      [] expression = <<"2", " ", "+", " ", "3", " ", "*", " ", "4">> -> "14"
      [] expression = <<"a", "b", "s", "(", "1", ")">> -> "1"
      [] expression = <<"1", "/", "0">> -> "ZeroDivisionError"
      [] expression = <<"2", "+", "x">> -> "NameError"
      [] OTHER -> "SyntaxError"

EvalRaises(expression) ==
    Eval(expression) \in {"ZeroDivisionError", "NameError", "SyntaxError"}

\* The notification branch of handle_request (simple_mcp_server.py 97-104)
\* in a variant that answers a notification it does not know.
HandleNotificationAnswers(method) ==
    IF method = "initialized"
    THEN NoResponse
    ELSE ErrorResponse("None", -32601, <<"Unknown method: ", method>>)

\* handle_request for a message without id (simple_mcp_server.py 97-104).
HandleNotification(method) ==
    IF method = "initialized"
    THEN NoResponse
    ELSE NoResponse

\* The tool get_current_time (simple_mcp_server.py 124-148).
GetCurrentTime(request_id, arguments, format, now) ==
    IF arguments = "None"
    THEN Raises("AttributeError")
    ELSE LET format_type == GetOr(format, "iso")
             time_str == IF format_type \in {"iso", "readable", "timestamp"}
                         THEN <<now, format_type>>
                         ELSE <<now, "iso">>
         IN  ResultResponse(request_id,
                            <<"Current time (", format_type, "): ">> \o time_str)

\* The tool calculate in a variant that evaluates whatever it is given.
CalculateUnchecked(request_id, arguments, expression) ==
    IF arguments = "None"
    THEN Raises("AttributeError")
    ELSE IF ~EvalRaises(expression)
    THEN [ResultResponse(request_id, expression \o <<" = ", Eval(expression)>>)
            EXCEPT !.evaluated = <<expression>>]
    ELSE [ErrorResponse(request_id, -32602,
                        <<"Calculation error: ", Eval(expression)>>)
            EXCEPT !.evaluated = <<expression>>]

\* The tool calculate (simple_mcp_server.py 150-173): eval of an expression
\* of allowed characters; any exception gives an error Response.
Calculate(request_id, arguments, expression) ==
    IF arguments = "None"
    THEN Raises("AttributeError")
    ELSE IF \A i \in 1..Len(expression) : expression[i] \in allowed_chars
    THEN IF ~EvalRaises(expression)
         THEN [ResultResponse(request_id, expression \o <<" = ", Eval(expression)>>)
                 EXCEPT !.evaluated = <<expression>>]
         ELSE [ErrorResponse(request_id, -32602,
                             <<"Calculation error: ", Eval(expression)>>)
                 EXCEPT !.evaluated = <<expression>>]
    ELSE ErrorResponse(request_id, -32602,
                       <<"Calculation error: ", "Invalid characters in expression">>)

\* The tool echo (simple_mcp_server.py 175-183).
Echo(request_id, arguments, message) ==
    IF arguments = "None"
    THEN Raises("AttributeError")
    ELSE ResultResponse(request_id, <<"Echo: ", GetOr(message, "")>>)

\* A variant of the answer to an unknown tool: a result that says so.
UnknownToolAsContent(request_id, tool_name) ==
    ResultResponse(request_id, <<"Unknown tool: ", tool_name>>)

\* A tool that is not in the catalog (simple_mcp_server.py 185-190).
UnknownTool(request_id, tool_name) ==
    ErrorResponse(request_id, -32601, <<"Unknown tool: ", tool_name>>)

\* tools/call (simple_mcp_server.py 120-190).
ToolsCall(request_id, request, now) ==
    IF request.params = "None"
    THEN Raises("AttributeError")
    ELSE LET tool_name == GetOr(request.name, "None")
             arguments == GetOr(request.arguments, "{}")
         IN  CASE tool_name = "get_current_time" ->
                     GetCurrentTime(request_id, arguments, request.format, now)
               [] tool_name = "calculate" ->
                     Calculate(request_id, arguments, request.expression)
               [] tool_name = "echo" ->
                     Echo(request_id, arguments, request.message)
               [] OTHER -> UnknownTool(request_id, tool_name)

\* resources/read (simple_mcp_server.py 199-250).
ResourcesRead(request_id, request, now) ==
    IF request.params = "None"
    THEN Raises("AttributeError")
    ELSE LET uri == GetOr(request.uri, "None") IN
         CASE uri = "memory://system_info" ->
                 ResultResponse(request_id, <<uri, "application/json", "platform">>)
           [] uri = "memory://server_status" ->
                 ResultResponse(request_id, <<uri, "application/json", "running", now>>)
           [] OTHER ->
                 ErrorResponse(request_id, -32602, <<"Resource not found: ", uri>>)

\* prompts/get (simple_mcp_server.py 259-286).
PromptsGet(request_id, request) ==
    IF request.params = "None"
    THEN Raises("AttributeError")
    ELSE LET name == GetOr(request.name, "None")
             arguments == GetOr(request.arguments, "{}")
         IN  IF name = "greeting"
             THEN IF arguments = "None"
                  THEN Raises("AttributeError")
                  ELSE ResultResponse(request_id,
                          <<"Greeting prompt for ", GetOr(request.person, "friend")>>)
             ELSE ErrorResponse(request_id, -32602, <<"Unknown prompt: ", name>>)
\* A variant of handle_request with a session: a request that does not
\* follow an initialize request or an initialized notification is refused.
HandleRequestInSession(request, now) ==
    LET method == GetOr(request.method, "None")
        request_id == GetOr(request.id, "None")
    IN  IF request_id = "None"
        THEN HandleNotification(method)
        ELSE IF method # "initialize"
                /\ server.line.request.method \notin {"initialize", "initialized"}
        THEN ErrorResponse(request_id, -32002, <<"Server not initialized">>)
        ELSE CASE method = "initialize" ->
                     ResultResponse(request_id,
                                    <<"2024-11-05", "simple-test-server", "1.0.0">>)
               [] method \in {"tools/list", "resources/list", "prompts/list"} ->
                     ListResponse(request_id, method)
               [] method = "tools/call" -> ToolsCall(request_id, request, now)
               [] method = "resources/read" -> ResourcesRead(request_id, request, now)
               [] method = "prompts/get" -> PromptsGet(request_id, request)
               [] OTHER ->
                     ErrorResponse(request_id, -32601, <<"Unknown method: ", method>>)

\* SimpleMCPServer.handle_request (simple_mcp_server.py 91-293); `now` is
\* what datetime.now() gives.
HandleRequest(request, now) ==
    LET method == GetOr(request.method, "None")
        request_id == GetOr(request.id, "None")
    IN  IF request_id = "None"
        THEN HandleNotification(method)
        ELSE CASE method = "initialize" ->
                     ResultResponse(request_id,
                                    <<"2024-11-05", "simple-test-server", "1.0.0">>)
               [] method \in {"tools/list", "resources/list", "prompts/list"} ->
                     ListResponse(request_id, method)
               [] method = "tools/call" -> ToolsCall(request_id, request, now)
               [] method = "resources/read" -> ResourcesRead(request_id, request, now)
               [] method = "prompts/get" -> PromptsGet(request_id, request)
               [] OTHER ->
                     ErrorResponse(request_id, -32601, <<"Unknown method: ", method>>)
\* A variant of the loop of stdio_server that gives up at a line that is
\* not JSON, after the parse error.
ServeStopsOnBadLine(line, now) ==
    IF line.text = "invalid"
    THEN [server EXCEPT !.line = line, !.lines = @ + 1, !.evaluated = <<>>,
                        !.written = <<ErrorResponse("None", -32700,
                                          <<"Parse error: ", "JSONDecodeError">>)>>,
                        !.pc = "ended"]
    ELSE IF line.text = "eof"
    THEN [server EXCEPT !.line = line, !.lines = @ + 1, !.evaluated = <<>>,
                        !.written = <<>>, !.pc = "ended"]
    ELSE [server EXCEPT !.line = line, !.lines = @ + 1, !.evaluated = <<>>,
                        !.written = <<>>]

\* One turn of the loop of stdio_server (simple_mcp_server.py 302-338) on
\* the line read: what it prints and whether it goes on.
Serve(line, now) ==
    LET read == [server EXCEPT !.line = line, !.lines = @ + 1,
                               !.written = <<>>, !.evaluated = <<>>]
    IN  CASE line.text = "eof" -> [read EXCEPT !.pc = "ended"]
          [] line.text = "blank" -> read
          [] line.text = "invalid" ->
                [read EXCEPT !.written =
                    <<ErrorResponse("None", -32700, <<"Parse error: ", "JSONDecodeError">>)>>]
          [] line.text = "list" ->
                [read EXCEPT !.written =
                    <<ErrorResponse("None", -32603, <<"Internal error: ", "AttributeError">>)>>]
          [] line.text = "object" ->
                LET response == HandleRequest(line.request, now) IN
                IF response.raised # "none"
                THEN [read EXCEPT !.evaluated = response.evaluated,
                                  !.written = <<ErrorResponse("None", -32603,
                                                  <<"Internal error: ", response.raised>>)>>]
                ELSE IF response.keys = {}
                THEN [read EXCEPT !.evaluated = response.evaluated]
                ELSE [read EXCEPT !.evaluated = response.evaluated,
                                  !.written = <<response>>]

(***************************************************************************)
(* The input of the server: at most MaxLines lines, then the end of input. *)
(* The requests are those of every method, with and without id and params, *)
(* and for the methods that read their params every value that matters.    *)
(***************************************************************************)
MaxLines == 2

Ids == {"missing", "None", "1", "2"}

Clock == {"12:00", "12:01"}

Methods ==
    {"missing", "initialize", "initialized", "tools/list", "resources/list",
     "prompts/list", "tools/call", "resources/read", "prompts/get", "foo/bar"}

Arguments ==
    {[NoRequest EXCEPT !.arguments = arguments] : arguments \in {"missing", "None"}}
    \cup {[NoRequest EXCEPT !.arguments = "dict", !.format = format] :
             format \in {"missing", "iso", "readable", "timestamp", "week"}}
    \cup {[NoRequest EXCEPT !.arguments = "dict", !.expression = expression] :
             expression \in Expressions}
    \cup {[NoRequest EXCEPT !.arguments = "dict", !.message = "hi"],
          [NoRequest EXCEPT !.arguments = "dict", !.person = "Ada"]}

\* The params of a request of a method: missing, null, or a dict; for the
\* methods that read them a dict with what they read.
Params(method) ==
    {[NoRequest EXCEPT !.params = params] : params \in {"missing", "None", "dict"}}
    \cup CASE method = "tools/call" ->
                {[arguments EXCEPT !.params = "dict", !.name = name] :
                    name \in {"get_current_time", "calculate", "echo",
                              "delete_everything"},
                    arguments \in Arguments}
           [] method = "resources/read" ->
                {[NoRequest EXCEPT !.params = "dict", !.uri = uri] :
                    uri \in {"memory://system_info", "memory://server_status",
                             "memory://nothing"}}
           [] method = "prompts/get" ->
                {[arguments EXCEPT !.params = "dict", !.name = name] :
                    name \in {"greeting", "farewell"},
                    arguments \in {a \in Arguments : a.format = "missing"
                                                      /\ a.expression = <<>>
                                                      /\ a.message = "missing"}}
           [] OTHER -> {}

Requests ==
    UNION {{[params EXCEPT !.id = id, !.method = method] :
               id \in Ids, params \in Params(method)} : method \in Methods}

Lines ==
    {[NoLine EXCEPT !.text = text] : text \in {"eof", "blank", "invalid", "list"}}
    \cup {[text |-> "object", request |-> request] : request \in Requests}

\* stdio_server reads a line and serves it.
ReadLine(line, now) ==
    /\ server.pc = "running"
    /\ server.lines < MaxLines \/ line.text = "eof"
    /\ server' = Serve(line, now)
    /\ UNCHANGED <<connections, initialized_servers, conns, leaked, retired, task,
                   config, codec, mcp_connection>>

NextServer == \E line \in Lines, now \in Clock : ReadLine(line, now)

ServerSpec == Init /\ [][NextServer]_vars

(***************************************************************************)
(* load_config (src/egile_mcp_client/config.py 85-188).                    *)
(***************************************************************************)
\* f"{provider.upper()}_API_KEY" and f"{provider.upper()}_MODEL".
EnvKey(provider) ==
    CASE provider = "openai"    -> "OPENAI_API_KEY"
      [] provider = "anthropic" -> "ANTHROPIC_API_KEY"
      [] provider = "xai"       -> "XAI_API_KEY"

ModelEnvKey(provider) ==
    CASE provider = "openai"    -> "OPENAI_MODEL"
      [] provider = "anthropic" -> "ANTHROPIC_MODEL"
      [] provider = "xai"       -> "XAI_MODEL"

EnvNames == {EnvKey(p) : p \in Providers} \cup {ModelEnvKey(p) : p \in Providers}

\* env_overrides["ai_providers"] (config.py 127-145): the providers with a
\* variable set, with the value of each variable that is.
EnvOverrides(environ) ==
    [provider \in {p \in Providers : EnvKey(p) \in environ \/ ModelEnvKey(p) \in environ}
        |-> [api_key |-> IF EnvKey(provider) \in environ
                         THEN "os.environ[env_key]" ELSE "missing",
             model |-> IF ModelEnvKey(provider) \in environ
                       THEN "os.environ[model_env_key]" ELSE "missing"]]

\* dict.update: the keys of `other` replace those of `data`.
Update(data, other) ==
    [api_key |-> IF other.api_key # "missing" THEN other.api_key ELSE data.api_key,
     model |-> IF other.model # "missing" THEN other.model ELSE data.model]

\* merged_config["ai_providers"] (config.py 148-160).
Merged(config_data, env_overrides) ==
    [provider \in DOMAIN config_data \cup DOMAIN env_overrides |->
        IF provider \in DOMAIN env_overrides
        THEN IF provider \in DOMAIN config_data
             THEN Update(config_data[provider], env_overrides[provider])
             ELSE env_overrides[provider]
        ELSE config_data[provider]]

\* AIProviderConfig(**provider_data) (config.py 15-22, 170): api_key and
\* model have no default, a call without one of them is a TypeError.
AIProviderConfigRaises(provider_data) ==
    provider_data.api_key = "missing" \/ provider_data.model = "missing"

\* load_config with the environment and the configuration file given.
LoadConfig(environ, config_data) ==
    LET merged_config == Merged(config_data, EnvOverrides(environ))
        loading == [NotLoaded EXCEPT !.pc = "loaded", !.environ = environ,
                                     !.config_data = config_data]
    IN  IF \E name \in DOMAIN merged_config : AIProviderConfigRaises(merged_config[name])
        THEN [loading EXCEPT !.raised = "TypeError"]
        ELSE [loading EXCEPT !.ai_providers = merged_config]

\* The configuration files: none (or one without ai_providers), and those
\* that give some providers a model, with or without an api_key.
ConfigFiles ==
    UNION {[names -> {[api_key |-> "yaml-key", model |-> "yaml-model"],
                      [api_key |-> "missing", model |-> "yaml-model"]}] :
              names \in SUBSET Providers}

\* load_config() is called.
CallLoadConfig(environ, config_data) ==
    /\ config' = LoadConfig(environ, config_data)
    /\ UNCHANGED <<connections, initialized_servers, conns, leaked, retired, task,
                   server, codec, mcp_connection>>

NextConfig ==
    \E environ \in SUBSET EnvNames, config_data \in ConfigFiles :
        CallLoadConfig(environ, config_data)

ConfigSpec == Init /\ [][NextConfig]_vars

(***************************************************************************)
(* The codec: serialize_message and parse_message.                         *)
(***************************************************************************)
\* The messages: requests and notifications of a few methods with no
\* params, empty params and params; responses with a result (an empty one
\* too) and with an error.
Messages ==
    {[NoMessage EXCEPT !.type = "Request", !.id = id, !.method = method,
                       !.params = params] :
        id \in {"id-1", "id-2"},
        method \in {"test/method", "initialize", "initialized"},
        params \in {"None", "{}", "{param: value}"}}
    \cup {[NoMessage EXCEPT !.type = "Notification", !.method = method,
                            !.params = params] :
             method \in {"test/method", "initialize", "initialized"},
             params \in {"None", "{}", "{param: value}"}}
    \cup {[NoMessage EXCEPT !.type = "Response", !.id = id, !.result = result] :
             id \in {"id-1", "id-2"}, result \in {"{}", "{tools: []}", "{content: text}"}}
    \cup {[NoMessage EXCEPT !.type = "Response", !.id = id, !.error = error] :
             id \in {"id-1", "id-2"}, error \in {"{code: -32601, message}",
                                          "{code: -32602, message}"}}

\* One member of the JSON object, when the message has the field.
Member(key, value) == IF value = "None" THEN <<>> ELSE <<[key |-> key, value |-> value]>>

\* A variant of serialize_message that leaves out params that are empty.
SerializeMessageTruthy(message) ==
    <<[key |-> "jsonrpc", value |-> "2.0"]>>
    \o Member("id", message.id)
    \o Member("method", message.method)
    \o (IF Bool(message.params) THEN Member("params", message.params) ELSE <<>>)
    \o Member("result", message.result)
    \o Member("error", message.error)

\* serialize_message: the JSON object of the message, one line.
SerializeMessage(message) ==
    <<[key |-> "jsonrpc", value |-> "2.0"]>>
    \o Member("id", message.id)
    \o Member("method", message.method)
    \o Member("params", message.params)
    \o Member("result", message.result)
    \o Member("error", message.error)

\* The value of a key of the JSON object, None when it is not there.
Value(wire_text, key) ==
    IF \E i \in 1..Len(wire_text) : wire_text[i].key = key
    THEN wire_text[CHOOSE i \in 1..Len(wire_text) : wire_text[i].key = key].value
    ELSE "None"

\* parse_message: a message with a method is a Request when it has an id
\* and a Notification when it has none; one without method is a Response,
\* which has an id and either a result or an error; anything else is a
\* CodecError.
ParseMessage(wire_text) ==
    LET fields == [NoMessage EXCEPT !.id = Value(wire_text, "id"),
                                    !.method = Value(wire_text, "method"),
                                    !.params = Value(wire_text, "params"),
                                    !.result = Value(wire_text, "result"),
                                    !.error = Value(wire_text, "error")]
    IN  IF fields.method # "None"
        THEN IF fields.id # "None"
             THEN [fields EXCEPT !.type = "Request"]
             ELSE [fields EXCEPT !.type = "Notification"]
        ELSE IF /\ fields.id # "None"
                /\ (fields.result # "None") # (fields.error # "None")
        THEN [fields EXCEPT !.type = "Response"]
        ELSE [NoMessage EXCEPT !.type = "CodecError"]

\* A message is built (create_request, create_notification, a Response).
Build(message) ==
    /\ codec.pc \in {"none", "parsed"}
    /\ codec' = [NoCodec EXCEPT !.pc = "built", !.message = message]
    /\ UNCHANGED <<connections, initialized_servers, conns, leaked, retired, task,
                   server, config, mcp_connection>>

Serialize ==
    /\ codec.pc = "built"
    /\ codec' = [codec EXCEPT !.pc = "serialized",
                              !.wire_text = SerializeMessage(codec.message)]
    /\ UNCHANGED <<connections, initialized_servers, conns, leaked, retired, task,
                   server, config, mcp_connection>>

Parse ==
    /\ codec.pc = "serialized"
    /\ LET parsed == ParseMessage(codec.wire_text) IN
       codec' = IF parsed.type = "CodecError"
                THEN [codec EXCEPT !.pc = "parsed", !.raised = "CodecError"]
                ELSE [codec EXCEPT !.pc = "parsed", !.parsed = parsed]
    /\ UNCHANGED <<connections, initialized_servers, conns, leaked, retired, task,
                   server, config, mcp_connection>>

NextCodec ==
    \/ \E message \in Messages : Build(message)
    \/ Serialize
    \/ Parse

CodecSpec == Init /\ [][NextCodec]_vars

(***************************************************************************)
(* The connection: request/response correlation (specification 4.3).       *)
(***************************************************************************)
\* The pending table: the ids of the requests in flight.
Pending(connection) == {id \in RequestIds : connection.slots[id] = "pending"}

\* A variant of the receipt of a Response that gives a Response with an
\* unknown id to the oldest pending request.
ReceiveResponseToOldest(connection, id, payload) ==
    LET got == [connection EXCEPT !.responses = @ + 1, !.received = id] IN
    IF id \in Pending(connection)
    THEN [got EXCEPT !.slots[id] = payload, !.resolved_by[id] = id]
    ELSE IF Pending(connection) # {}
    THEN LET oldest == CHOOSE p \in Pending(connection) :
                          \A q \in Pending(connection) : p <= q
         IN  [got EXCEPT !.slots[oldest] = payload, !.resolved_by[oldest] = id]
    ELSE [got EXCEPT !.dropped = @ + 1]

\* A Response is received: the matching entry is removed from the table and
\* resolved; a Response with an id that is not in the table is dropped.
ReceiveResponse(connection, id, payload) ==
    LET got == [connection EXCEPT !.responses = @ + 1, !.received = id] IN
    IF id \in Pending(connection)
    THEN [got EXCEPT !.slots[id] = payload, !.resolved_by[id] = id]
    ELSE [got EXCEPT !.dropped = @ + 1]

\* send_request: the id of the request goes into the pending table.
SendRequest(id) ==
    /\ mcp_connection.state = "connected"
    /\ mcp_connection.slots[id] = "none"
    /\ \A other \in RequestIds : other < id => mcp_connection.slots[other] # "none"
    /\ mcp_connection' = [mcp_connection EXCEPT !.slots[id] = "pending"]
    /\ UNCHANGED <<connections, initialized_servers, conns, leaked, retired, task,
                   server, config, codec>>

\* The transport delivers a Response with some id.
Receive(id, payload) ==
    /\ mcp_connection.state = "connected"
    /\ mcp_connection.responses < MaxResponses
    /\ mcp_connection' = ReceiveResponse(mcp_connection, id, payload)
    /\ UNCHANGED <<connections, initialized_servers, conns, leaked, retired, task,
                   server, config, codec>>

\* disconnect(): every pending request is resolved with a Cancelled failure.
Disconnect ==
    /\ mcp_connection.state = "connected"
    /\ mcp_connection' =
          [mcp_connection EXCEPT
              !.state = "disconnected",
              !.slots = [id \in RequestIds |-> IF @[id] = "pending" THEN "Cancelled"
                                               ELSE @[id]]]
    /\ UNCHANGED <<connections, initialized_servers, conns, leaked, retired, task,
                   server, config, codec>>

NextConnection ==
    \/ \E id \in RequestIds : SendRequest(id)
    \/ \E id \in RequestIds \cup {0}, payload \in {"result", "error"} : Receive(id, payload)
    \/ Disconnect

ConnectionSpec == Init /\ [][NextConnection]_vars

(***************************************************************************)
(* Properties.                                                             *)
(***************************************************************************)
\* The initialize exchange on connection c is complete: a Response without
\* error was received and the initialized notification sent after it.
HandshakeComplete(c) ==
    \E i, j \in 1..Len(c.handshake) :
        /\ i < j
        /\ c.handshake[i] = "initialize:result"
        /\ c.handshake[j] = "initialized"

\* The operation of task t has just ended.
Done(t) == task[t].pc = "done"

\* C1: no operational request is sent on a connection before that
\* connection has received a successful initialize Response and the
\* initialized notification has been sent on it.
NoOperationBeforeHandshake ==
    \A t \in Tasks :
        /\ task[t].pc = "await_operation"
        /\ task[t].request \in OperationalMethods
        /\ ConnIsConnected(conns[task[t].conn])
        => HandshakeComplete(conns[task[t].conn])

\* C2: when the handshake fails inside connect_to_server, the call raises
\* and the server is back to Disconnected: no registry entry, not in
\* initialized_servers, and disconnect() was called on the opened transport.
HandshakeFailures == {"initialize_error", "initialize_raised", "notification_raised"}

FailedHandshakeDisconnects ==
    \A t \in Tasks :
        Done(t) /\ task[t].why \in HandshakeFailures
        => /\ task[t].outcome = "raised"
           /\ ~Has(connections, task[t].arg)
           /\ task[t].arg \notin initialized_servers
           /\ conns[task[t].conn].state = "closed"

\* C3: when connect_to_server(name) succeeds on a configured server that
\* was not in the registry, name is a key of connections, name is in
\* initialized_servers, connect() of the connection was called and an
\* initialize request was sent on it.
ConnectSuccessRegisters ==
    \A t \in Tasks :
        /\ Done(t)
        /\ task[t].op = "connect_to_server"
        /\ task[t].outcome = "returned"
        /\ task[t].why = "connected"
        => /\ FindServerConfig(task[t].arg) # None
           /\ Has(connections, task[t].arg)
           /\ task[t].arg \in initialized_servers
           /\ Get(connections, task[t].arg) = task[t].conn
           /\ conns[task[t].conn].state = "open"
           /\ conns[task[t].conn].handshake # <<>>
           /\ Head(conns[task[t].conn].handshake) = "initialize"

ConnectSuccessWitness ==
    \E t \in Tasks :
        /\ Done(t)
        /\ task[t].op = "connect_to_server"
        /\ task[t].outcome = "returned"
        /\ task[t].why = "connected"
        /\ task[t].arg \in initialized_servers

\* C4: when creating the connection or opening its transport fails in
\* connect_to_server, called directly or by the lazy connect of an
\* operational call, the error is raised to the caller and connections and
\* initialized_servers are what they were before the call.
CreateOrOpenFailureKeepsState ==
    [][\A t \in Tasks :
          /\ (task[t].pc = "idle" /\ task'[t].pc = "await_connect")
             => UNCHANGED <<connections, initialized_servers>>
          /\ (/\ task[t].pc = "idle"
              /\ task'[t].op \in Operations \cup {"connect_to_server"}
              /\ FindServerConfig(task'[t].arg) # None
              /\ ~Has(connections, task'[t].arg)
              /\ CreateConnection(FindServerConfig(task'[t].arg)) = "ValueError")
             => /\ task'[t].pc = "done"
                /\ task'[t].outcome = "raised"
                /\ UNCHANGED <<connections, initialized_servers>>
          /\ (/\ task[t].pc = "await_connect"
              /\ conns'[task[t].conn].state = "failed")
             => /\ task'[t].pc = "done"
                /\ task'[t].outcome = "raised"
                /\ UNCHANGED <<connections, initialized_servers>>
      ]_vars

OpenFailureWitness ==
    \E t \in Tasks :
        /\ Done(t)
        /\ task[t].op \in Operations
        /\ task[t].outcome = "raised"
        /\ task[t].why = "connect_raised"
        /\ connections # <<>>

\* C5: connect_to_server(name) for a name that is not configured raises,
\* creates no connection and leaves connections and initialized_servers
\* unchanged; and it does so whatever the registry holds for the name (the
\* configuration is looked at before the registry).
UnknownServerRaises ==
    /\ [][\A t \in Tasks :
             (/\ task[t].pc = "idle"
              /\ task'[t].op = "connect_to_server"
              /\ FindServerConfig(task'[t].arg) = None)
             => /\ task'[t].pc = "done"
                /\ task'[t].outcome = "raised"
                /\ UNCHANGED <<connections, initialized_servers, conns>>
         ]_vars
    /\ [](\A t \in Tasks, c \in Conns :
             \A server_name \in {n \in ServerNames : FindServerConfig(n) = None} :
                LET st == ConnectToServer(Register(State(t), server_name, c),
                                          server_name)
                IN  /\ st.me.outcome = "raised"
                    /\ st.connections = Register(State(t), server_name, c).connections
                    /\ st.conns = conns)

UnknownServerWitness ==
    \E t \in Tasks :
        /\ Done(t)
        /\ task[t].op = "connect_to_server"
        /\ task[t].arg = "nonexistent"
        /\ task[t].outcome = "raised"
        /\ task[t].why = "not_found"
        /\ connections # <<>>

\* C6: connect_to_server(name) on a server that has a live connection in
\* the registry does not raise, creates and opens no second connection, and
\* leaves the registry entry (the same connection object) and
\* initialized_servers unchanged.
ConnectWhenLiveIsNoOp ==
    [][\A t \in Tasks :
          (/\ task[t].pc = "idle"
           /\ task'[t].op = "connect_to_server"
           /\ IsConnected(connections, conns, task'[t].arg))
          => /\ task'[t].pc = "done"
             /\ task'[t].outcome = "returned"
             /\ UNCHANGED <<connections, initialized_servers, conns>>
      ]_vars

ConnectWhenLiveWitness ==
    \E t \in Tasks :
        /\ Done(t)
        /\ task[t].op = "connect_to_server"
        /\ task[t].outcome = "returned"
        /\ task[t].why = "already_connected"
        /\ IsConnected(connections, conns, task[t].arg)
        /\ task[t].arg \in initialized_servers

\* C7: connect_to_server returns early as already connected only when the
\* registry entry of the name is a live connection that completed the
\* handshake; otherwise it creates a connection and drives it to Ready.
ShortCircuitOnlyWhenLive ==
    \A t \in Tasks :
        /\ Done(t)
        /\ task[t].op = "connect_to_server"
        /\ task[t].why = "already_connected"
        => /\ IsConnected(connections, conns, task[t].arg)
           /\ HandshakeComplete(conns[Get(connections, task[t].arg)])

\* C8: disconnect_from_server on a server that is not in the registry
\* raises no error and changes neither connections nor initialized_servers.
DisconnectWhenAbsentIsNoOp ==
    [][\A t \in Tasks :
          (/\ task[t].pc = "idle"
           /\ task'[t].op = "disconnect_from_server"
           /\ ~Has(connections, task'[t].arg))
          => /\ task'[t].pc = "done"
             /\ task'[t].outcome = "returned"
             /\ task'[t].disconnected = <<>>
             /\ UNCHANGED <<connections, initialized_servers, conns>>
      ]_vars

DisconnectWhenAbsentWitness ==
    \E t \in Tasks :
        /\ Done(t)
        /\ task[t].op = "disconnect_from_server"
        /\ task[t].arg = "test_server"
        /\ task[t].outcome = "returned"
        /\ task[t].why = "not_connected"
        /\ connections # <<>>

\* C9: a successful disconnect_from_server(name) on a registered server
\* calls disconnect() on the connection of that server, removes name from
\* connections and from initialized_servers, and touches no other entry.
DisconnectRemovesOnlyName ==
    [][\A t \in Tasks :
          /\ (/\ task[t].pc = "idle"
              /\ task'[t].op = "disconnect_from_server"
              /\ Has(connections, task'[t].arg))
             => /\ task'[t].pc = "await_disconnect"
                /\ task'[t].conn = Get(connections, task'[t].arg)
                /\ task'[t].disconnected = <<task'[t].conn>>
                /\ UNCHANGED <<connections, initialized_servers, conns>>
          /\ (/\ task[t].pc = "await_disconnect"
              /\ task[t].op = "disconnect_from_server"
              /\ task'[t].pc # "await_disconnect"
              /\ task'[t].why # "disconnect_raised")
             => /\ task'[t].pc = "done"
                /\ task'[t].outcome = "returned"
                /\ conns'[task[t].conn].state = "closed"
                /\ connections' = Del(connections, task[t].arg)
                /\ initialized_servers' = initialized_servers \ {task[t].arg}
                /\ \A c \in Conns \ {task[t].conn} : conns'[c] = conns[c]
      ]_vars

DisconnectRemovesWitness ==
    \E t \in Tasks :
        /\ Done(t)
        /\ task[t].op = "disconnect_from_server"
        /\ task[t].why = "disconnected"
        /\ conns[task[t].conn].state = "closed"
        /\ connections # <<>>
        /\ initialized_servers # {}

\* C10: disconnect_all attempts the disconnect of every server that was in
\* the registry when it started, each exactly once, also when the
\* disconnect of some of them fails; and it terminates.
DisconnectAllAttemptsEvery ==
    /\ [](\A t \in Tasks :
             Done(t) /\ task[t].op = "disconnect_all"
             => /\ task[t].outcome = "returned"
                /\ task[t].attempted = task[t].names
                /\ Len(task[t].disconnected) = Len(task[t].names)
                /\ \A i, j \in 1..Len(task[t].attempted) :
                      task[t].attempted[i] = task[t].attempted[j] => i = j
                /\ \A i, j \in 1..Len(task[t].disconnected) :
                      task[t].disconnected[i] = task[t].disconnected[j] => i = j)
    /\ \A t \in Tasks : (task[t].op = "disconnect_all") ~> Done(t)

DisconnectAllWitness ==
    \E t \in Tasks :
        /\ Done(t)
        /\ task[t].op = "disconnect_all"
        /\ Len(task[t].names) = 2
        /\ task[t].swallowed = {task[t].names[1]}

\* C11: when the disconnect of one or more servers fails during
\* disconnect_all, the failures are reported to the caller of
\* disconnect_all.
DisconnectAllReportsFailures ==
    \A t \in Tasks :
        Done(t) /\ task[t].op = "disconnect_all" /\ task[t].swallowed # {}
        => task[t].outcome = "raised"

DisconnectFailureSurfaces ==
    \A t \in Tasks :
        /\ Done(t)
        /\ task[t].op = "disconnect_from_server"
        /\ task[t].why = "disconnect_raised"
        => task[t].outcome = "raised"

\* C14: whenever the Response to an operational call has a populated error
\* field, whatever the error object holds, the call raises and returns
\* nothing.
ErrorResponseAlwaysRaises ==
    \A t \in Tasks :
        /\ Done(t)
        /\ task[t].op \in Operations
        /\ task[t].why \in {"result", "error_response"}
        /\ Error(task[t].response) # "None"
        => task[t].outcome = "raised"

\* C15: after an operational call failed on an error Response, the registry
\* entry and the initialized status of the server are unchanged, and an
\* operational call on a registered server sends its request on the
\* registered connection without connect or handshake.
ErrorResponseKeepsSession ==
    [][\A t \in Tasks :
          /\ (/\ task[t].pc = "await_operation"
              /\ task'[t].pc # "await_operation"
              /\ task'[t].response = "error")
             => /\ task'[t].pc = "done"
                /\ task'[t].outcome = "raised"
                /\ UNCHANGED <<connections, initialized_servers, conns>>
          /\ (/\ task[t].pc = "idle"
              /\ task'[t].op \in Operations
              /\ Has(connections, task'[t].arg))
             => /\ task'[t].pc = "await_operation"
                /\ task'[t].conn = Get(connections, task'[t].arg)
                /\ task'[t].request = Method(task'[t].op)
                /\ UNCHANGED <<connections, initialized_servers, conns>>
      ]_vars

ErrorResponseWitness ==
    \E t \in Tasks :
        /\ Done(t)
        /\ task[t].op \in Operations
        /\ task[t].outcome = "raised"
        /\ task[t].why = "error_response"
        /\ IsConnected(connections, conns, task[t].arg)
        /\ Get(connections, task[t].arg) = task[t].conn
        /\ task[t].arg \in initialized_servers

\* C16: after an operational call failed because send_request raised, the
\* error is surfaced and the session of the server is back to Disconnected:
\* the server has no registry entry and no initialized status, so that a
\* later operational call connects again.
TransportFailureDisconnects ==
    \A t \in Tasks :
        /\ Done(t)
        /\ task[t].op \in Operations
        /\ task[t].why = "request_raised"
        => /\ task[t].outcome = "raised"
           /\ ~Has(connections, task[t].arg)
           /\ task[t].arg \notin initialized_servers

\* C17: is_connected and get_connected_servers are read-only: in any state
\* they create no connection and leave connections and initialized_servers
\* unchanged; is_connected(name) is false when name has no registry entry.
IntrospectionIsReadOnly ==
    [][\A t \in Tasks :
          (/\ task[t].pc = "idle"
           /\ task'[t].op \in {"is_connected", "get_connected_servers"})
          => /\ task'[t].pc = "done"
             /\ task'[t].outcome = "returned"
             /\ UNCHANGED <<connections, initialized_servers, conns, leaked>>
             /\ (task'[t].op = "is_connected" /\ ~Has(connections, task'[t].arg))
                => task'[t].value = "False"
             /\ task'[t].op = "get_connected_servers"
                => task'[t].listed = Keys(connections)
      ]_vars

IntrospectionWitness ==
    \E t, u \in Tasks :
        /\ Done(t)
        /\ task[t].op = "is_connected"
        /\ task[t].arg = "http_server"
        /\ task[t].value = "False"
        /\ task[u].pc = "await_initialize"
        /\ task[u].arg = "test_server"
        /\ Keys(connections) = <<"test_server">>

\* C18: concurrent connect_to_server / disconnect_from_server calls and
\* lazy connects for one server name are serialized: at any time at most
\* one connection of a name is being opened or open.
OneConnectionPerName ==
    \A server_name \in ServerNames :
        Cardinality({c \in Conns : /\ conns[c].server_name = server_name
                                   /\ conns[c].state \in {"connecting", "open"}}) <= 1

\* C19: sessions of different servers are independent: a step of an
\* operation on server A changes neither the registry entry, nor the
\* initialized status, nor a connection of another server B; an operational
\* request is in flight on a connection of its own server; and a call in
\* flight on http_server completes even if a call on test_server stays
\* suspended for ever.
ServersAreIndependent ==
    /\ [][\A t \in Tasks :
             task'[t] # task[t]
             => LET A == IF task'[t].op = "none" THEN task[t].arg ELSE task'[t].arg IN
                \A B \in ServerNames \ {A} :
                   /\ Has(connections', B) <=> Has(connections, B)
                   /\ Has(connections, B) => Get(connections', B) = Get(connections, B)
                   /\ B \in initialized_servers' <=> B \in initialized_servers
                   /\ \A c \in Conns : conns[c].server_name = B => conns'[c] = conns[c]
         ]_vars
    /\ [](\A t \in Tasks :
             task[t].pc = "await_operation"
             => conns[task[t].conn].server_name = task[t].arg)
    /\ \A t \in {u \in IndepTasks : ServerOf(u) = "http_server"} :
          (task[t].pc = "await_operation") ~> Done(t)

ServersAreIndependentWitness ==
    \E t, u \in Tasks :
        /\ task[t].pc = "await_operation"
        /\ task[t].arg = "test_server"
        /\ Done(u)
        /\ task[u].op \in Operations
        /\ task[u].arg = "http_server"
        /\ task[u].why = "result"
        /\ Keys(connections) = <<"test_server", "http_server">>

\* C20: _create_connection selects the connection class from the server
\* type and raises a configuration error, creating nothing, when the type
\* is unsupported or the parameter the type requires is missing (url for
\* http and websocket, command for stdio).
CreateConnectionSelectsVariant ==
    /\ [](\A t \in Tasks :
             Done(t) /\ task[t].op = "_create_connection"
             => LET server_config == task[t].server_config
                    missing == {"None", "", "[]"}
                    fails == \/ server_config.type \notin {"http", "websocket", "stdio"}
                             \/ /\ server_config.type \in {"http", "websocket"}
                                /\ server_config.url \in missing
                             \/ /\ server_config.type = "stdio"
                                /\ server_config.command \in missing
                IN  IF fails
                    THEN /\ task[t].outcome = "raised"
                         /\ task[t].why = "ValueError"
                         /\ task[t].value = "none"
                    ELSE /\ task[t].outcome = "returned"
                         /\ task[t].value =
                               CASE server_config.type = "http" -> "HTTPMCPConnection"
                                 [] server_config.type = "websocket" -> "WebSocketMCPConnection"
                                 [] server_config.type = "stdio" -> "StdioMCPConnection")
    /\ [][\A t \in Tasks :
             task[t].pc = "idle" /\ task'[t].op = "_create_connection"
             => /\ task'[t].pc = "done"
                /\ UNCHANGED <<connections, initialized_servers, conns>>
         ]_vars

CreateConnectionWitness ==
    \E t \in Tasks :
        /\ Done(t)
        /\ task[t].op = "_create_connection"
        /\ task[t].server_config.type = "stdio"
        /\ task[t].server_config.url = "http://localhost:8000"
        /\ task[t].server_config.command = "None"
        /\ task[t].outcome = "raised"
        /\ connections # <<>>

\* The entries a result advertises to a list call: those under the list
\* key of the call, none when the result has no such key.
Advertised(operation, result) ==
    IF result.key = ListKey(operation) THEN result.entries ELSE <<>>

\* The identifying field of an entry and of a descriptor: the uri of a
\* resource, the name of a tool or a prompt.
EntryIdentifier(operation, data) ==
    IF operation = "list_resources" THEN data.uri ELSE data.name

Identifier(operation, descriptor) ==
    IF operation = "list_resources" THEN descriptor.uri ELSE descriptor.name

\* Descriptor i of the list was built from entry i: same identifier, name
\* and description where the entry has them, an empty or neutral value for
\* a description the entry lacks.
BuiltFrom(operation, descriptor, data) ==
    /\ EntryIdentifier(operation, data) # "missing"
       => Identifier(operation, descriptor) = EntryIdentifier(operation, data)
    /\ data.name # "missing" => descriptor.name = data.name
    /\ IF data.description # "missing"
       THEN descriptor.description = data.description
       ELSE descriptor.description \in {"", "None"}

\* C21: list_tools, list_resources and list_prompts return exactly one
\* descriptor for each entry the server's result advertises, in the same
\* order and with the same name and description; an optional field the
\* entry lacks becomes an empty or neutral value, a result without the list
\* key gives an empty list, and no descriptor has an empty identifier
\* (tool or prompt name, resource uri) made up for an entry that lacks it.
ListReturnsAdvertised ==
    \A t \in Tasks :
        Done(t) /\ task[t].op \in ListOperations /\ task[t].why = "result"
        => LET advertised == Advertised(task[t].op, task[t].result) IN
           /\ Len(task[t].listed) = Len(advertised)
           /\ \A i \in 1..Len(task[t].listed) :
                 /\ BuiltFrom(task[t].op, task[t].listed[i], advertised[i])
                 /\ Identifier(task[t].op, task[t].listed[i]) # ""

\* C22: descriptors are never cached.  Every list call on a connected
\* server sends a list request of its own, a list is returned only in the
\* step that receives the Response to that request, and the list returned
\* is built from the entries of that Response: one descriptor for each, in
\* order.
ListsAreNeverCached ==
    [][\A t \in Tasks :
          /\ /\ task[t].pc = "idle"
             /\ task'[t].op \in ListOperations
             /\ Has(connections, task'[t].arg)
             => /\ task'[t].pc = "await_operation"
                /\ task'[t].request = Method(task'[t].op)
                /\ task'[t].conn = Get(connections, task'[t].arg)
          /\ /\ task[t].pc # "done"
             /\ task'[t].pc = "done"
             /\ task'[t].op \in ListOperations
             /\ task'[t].outcome = "returned"
             => /\ task[t].pc = "await_operation"
                /\ task[t].request = Method(task'[t].op)
                /\ LET advertised == Advertised(task'[t].op, task'[t].result) IN
                   /\ Len(task'[t].listed) = Len(advertised)
                   /\ \A i \in 1..Len(advertised) :
                         BuiltFrom(task'[t].op, task'[t].listed[i], advertised[i])
      ]_vars

\* Two list calls in a row got different catalogs: the second one returns
\* the two entries the server has now.
ListsAreNeverCachedWitness ==
    \E t \in Tasks :
        /\ Done(t)
        /\ task[t].op = "list_tools"
        /\ task[t].why = "result"
        /\ Len(task[t].listed) = 2
        /\ task[t].listed[1].name = "echo"
        /\ task[t].listed[2].name = "calculate"
        /\ "test_server" \in initialized_servers

\* C30: handshake message order in _initialize_server.  The initialized
\* notification is sent only after a Response without error to the
\* initialize request was received on the connection; a server name is in
\* initialized_servers only after that notification was sent on its
\* connection; after an initialize Response that carries an error no
\* notification is sent and the name is not added.
HandshakeInOrder ==
    /\ \A c \in Conns :
          \A j \in 1..Len(conns[c].handshake) :
             conns[c].handshake[j] = "initialized"
             => /\ j >= 3
                /\ conns[c].handshake[j-2] = "initialize"
                /\ conns[c].handshake[j-1] = "initialize:result"
    /\ \A t \in Tasks :
          task[t].pc = "await_notification"
          => /\ conns[task[t].conn].handshake # <<>>
             /\ conns[task[t].conn].handshake[Len(conns[task[t].conn].handshake)]
                   = "initialize:result"
    /\ \A server_name \in initialized_servers :
          Has(connections, server_name)
          => LET h == conns[Get(connections, server_name)].handshake IN
             /\ h # <<>>
             /\ h[Len(h)] = "initialized"

Received(response) == IF "error" \in response.keys THEN "error" ELSE "result"

\* The server has just served a line that holds a request.
Served == server.line.text = "object"

\* C26: the reference server never answers a notification.  For a message
\* without id, whatever its method and params, handle_request returns None
\* and the loop prints nothing.
NotificationsUnanswered ==
    Served /\ server.line.request.id = "missing"
    => /\ server.written = <<>>
       /\ server.pc = "running"
       /\ \A now \in Clock : HandleRequest(server.line.request, now) = NoResponse

NotificationsUnansweredWitness ==
    /\ Served
    /\ server.line.request.id = "missing"
    /\ server.line.request.method = "foo/bar"
    /\ server.lines = 2
    /\ server.written = <<>>

\* C27: a tools/call request that names a tool that is not in the catalog
\* gets one Response with the id of the request, an error with code -32601
\* and no result; call_tool, receiving it, raises.
UnknownToolIsAnError ==
    /\ Served
    /\ server.line.request.method = "tools/call"
    /\ server.line.request.id \notin {"missing", "None"}
    /\ server.line.request.params = "dict"
    /\ server.line.request.name \notin {"missing"} \cup {tools[i].name : i \in 1..Len(tools)}
    => /\ Len(server.written) = 1
       /\ server.written[1].keys = {"jsonrpc", "id", "error"}
       /\ server.written[1].code = -32601
       /\ server.written[1].id = server.line.request.id
       /\ LET called == [State(1) EXCEPT !.me.op = "call_tool",
                                         !.me.arg = "test_server",
                                         !.me.pc = "await_operation"]
              ended == OperationFinish(called, Received(server.written[1]))
          IN  /\ ended.me.outcome = "raised"
              /\ ended.me.value = "none"

UnknownToolWitness ==
    /\ Served
    /\ server.line.request.method = "tools/call"
    /\ server.line.request.id = "2"
    /\ server.line.request.name = "delete_everything"
    /\ server.line.request.arguments = "None"
    /\ server.lines = 2
    /\ Len(server.written) = 1
    /\ server.written[1].code = -32601

\* The expression has a character that is not allowed.
Invalid(expression) == \E i \in 1..Len(expression) : expression[i] \notin allowed_chars

\* C28: a calculate call whose expression has a character outside the
\* allowed set is never evaluated and gets an error Response with code
\* -32602 and the id of the request; the server goes on serving: its loop
\* ends only at the end of its input.
InvalidExpressionIsAnError ==
    /\ /\ Served
       /\ server.line.request.method = "tools/call"
       /\ server.line.request.id \notin {"missing", "None"}
       /\ server.line.request.params = "dict"
       /\ server.line.request.name = "calculate"
       /\ server.line.request.arguments = "dict"
       /\ Invalid(server.line.request.expression)
       => /\ server.evaluated = <<>>
          /\ Len(server.written) = 1
          /\ server.written[1].keys = {"jsonrpc", "id", "error"}
          /\ server.written[1].code = -32602
          /\ server.written[1].id = server.line.request.id
          /\ server.pc = "running"
    /\ server.pc = "ended" => server.line.text = "eof"

InvalidExpressionWitness ==
    /\ Served
    /\ server.line.request.name = "calculate"
    /\ server.line.request.id = "1"
    /\ server.line.request.expression = <<"a", "b", "s", "(", "1", ")">>
    /\ server.lines = 2
    /\ Len(server.written) = 1
    /\ server.written[1].code = -32602
    /\ server.pc = "running"

\* C29: load_config returns a Config without raising for every combination
\* of presence and absence of the API-key environment variables of the
\* providers, also when no configuration file supplies the other fields of
\* a provider.
LoadConfigNeverRaises ==
    config.pc = "loaded" => config.raised = "none"

\* C23: the round-trip law of the codec.  For every valid message (Request,
\* Notification, Response with result, Response with error), parsing what
\* serialize_message made of it gives a message of the same kind that
\* equals it in method, params, id, result and error.
CodecRoundTrip ==
    codec.pc = "parsed"
    => /\ codec.raised = "none"
       /\ codec.parsed.type = codec.message.type
       /\ codec.parsed.method = codec.message.method
       /\ codec.parsed.params = codec.message.params
       /\ codec.parsed.id = codec.message.id
       /\ codec.parsed.result = codec.message.result
       /\ codec.parsed.error = codec.message.error

CodecRoundTripWitness ==
    /\ codec.pc = "parsed"
    /\ codec.message.type = "Request"
    /\ codec.message.method = "test/method"
    /\ codec.message.params = "{}"
    /\ Len(codec.wire_text) = 4
    /\ codec.parsed.type = "Request"

\* C24: on one connection, a received Response whose id matches no pending
\* request is discarded: the connection stays usable, every pending request
\* keeps its slot, and a request is resolved only by the Response that
\* carries its own id, once.
UnmatchedResponseDiscarded ==
    /\ [][/\ mcp_connection'.responses = mcp_connection.responses + 1
          /\ mcp_connection'.received \notin Pending(mcp_connection)
          => /\ mcp_connection'.slots = mcp_connection.slots
             /\ mcp_connection'.resolved_by = mcp_connection.resolved_by
             /\ mcp_connection'.state = "connected"
             /\ mcp_connection'.dropped = mcp_connection.dropped + 1
       ]_vars
    /\ [][\A id \in RequestIds :
             /\ mcp_connection.slots[id] = "pending"
                /\ mcp_connection'.slots[id] \in {"result", "error"}
                => /\ mcp_connection'.received = id
                   /\ mcp_connection'.resolved_by[id] = id
             /\ mcp_connection.slots[id] \in {"result", "error"}
                => mcp_connection'.slots[id] = mcp_connection.slots[id]
       ]_vars

\* A Response with an unknown id and a duplicate were dropped while two
\* requests were pending, and one of those was then resolved by its own.
UnmatchedResponseWitness ==
    /\ mcp_connection.dropped = 2
    /\ mcp_connection.slots[1] = "result"
    /\ mcp_connection.slots[2] = "error"
    /\ mcp_connection.slots[3] = "pending"
    /\ mcp_connection.received = 2
    /\ mcp_connection.state = "connected"

\* The handshake messages the client sent on connection c, in order.
Sent(c) ==
    SelectSeq(c.handshake, LAMBDA event : event \in {"initialize", "initialized"})

\* C31: lazy connect sends exactly one handshake.  An operational call on a
\* server absent from the registry creates one new connection and sends on
\* it initialize, then initialized, then the operational request, in that
\* order; an operational call on a server that is Ready sends only its
\* operational request, on the registered connection.
LazyConnectSendsOneHandshake ==
    [][\A t \in Tasks :
          /\ \* the call on a server that is Ready
             /\ task[t].pc = "idle"
             /\ task'[t].op \in Operations
             /\ Has(connections, task'[t].arg)
             /\ task'[t].arg \in initialized_servers
             => /\ task'[t].pc = "await_operation"
                /\ task'[t].request = Method(task'[t].op)
                /\ task'[t].conn = Get(connections, task'[t].arg)
                /\ connections' = connections
                /\ \A c \in Conns : conns'[c] = conns[c]
          /\ \* the call on a server without entry
             /\ task[t].pc = "idle"
             /\ task'[t].op \in Operations
             /\ ~Has(connections, task'[t].arg)
             => /\ task'[t].pc # "await_operation"
                /\ task'[t].pc = "await_connect"
                   => /\ conns[task'[t].conn].state = "none"
                      /\ conns'[task'[t].conn].handshake = <<>>
          /\ \* its handshake
             /\ task[t].op \in Operations
             /\ task[t].pc = "await_connect"
             /\ task'[t].pc \notin {"await_connect", "done"}
             => /\ task'[t].pc = "await_initialize"
                /\ task'[t].conn = task[t].conn
                /\ Sent(conns'[task[t].conn]) = <<"initialize">>
          /\ \* its operational request
             /\ task[t].op \in Operations
             /\ task[t].pc # "await_operation"
             /\ task[t].pc # "idle"
             /\ task'[t].pc = "await_operation"
             => /\ task[t].pc = "await_notification"
                /\ task'[t].conn = task[t].conn
                /\ task'[t].request = Method(task[t].op)
                /\ Sent(conns'[task[t].conn]) = <<"initialize", "initialized">>
                /\ Sent(conns[task[t].conn]) = <<"initialize">>
                /\ \A c \in Conns \ {task[t].conn} : Sent(conns'[c]) = Sent(conns[c])
      ]_vars

\* A lazily connected call has its request in flight on the connection it
\* created, after one handshake.
LazyConnectWitness ==
    \E t \in Tasks :
        /\ task[t].pc = "await_operation"
        /\ task[t].op = "call_tool"
        /\ task[t].why = "connected"
        /\ task[t].request = "tools/call"
        /\ Get(connections, task[t].arg) = task[t].conn
        /\ Sent(conns[task[t].conn]) = <<"initialize", "initialized">>

\* C32: whenever connect_to_server(name) returns normally, name has
\* completed the handshake (name is in initialized_servers), also when the
\* call returns through the already-connected branch while the connect of
\* another task for that name still awaits the initialize Response, or
\* after an earlier handshake for that name failed.
ConnectReturnsInitialized ==
    \A t \in Tasks :
        /\ Done(t)
        /\ task[t].op = "connect_to_server"
        /\ task[t].outcome = "returned"
        => task[t].arg \in initialized_servers

\* A call for a name that was disconnected and has no entry builds a new
\* connection, which has sent nothing and carries no initialized status.
ReconnectBuildsNew ==
    [][\A t \in Tasks :
          /\ task[t].pc = "idle"
          /\ task'[t].op \in Operations \cup {"connect_to_server"}
          /\ task'[t].arg \in retired
          /\ ~Has(connections, task'[t].arg)
          => /\ task'[t].pc = "await_connect"
             /\ conns[task'[t].conn].state = "none"
             /\ conns'[task'[t].conn].state = "connecting"
             /\ conns'[task'[t].conn].handshake = <<>>
             /\ task'[t].arg \notin initialized_servers'
      ]_vars

\* A name joins initialized_servers by a full handshake on its registered
\* connection.
InitializedByFullHandshake ==
    [][\A server_name \in ServerNames :
          /\ server_name \notin initialized_servers
          /\ server_name \in initialized_servers'
          => /\ Has(connections', server_name)
             /\ conns'[Get(connections', server_name)].state = "open"
             /\ Sent(conns'[Get(connections', server_name)])
                   = <<"initialize", "initialized">>
             /\ Sent(conns[Get(connections', server_name)]) = <<"initialize">>
      ]_vars

\* A disconnected connection object is not registered and nothing is sent
\* on it.
DisconnectedNeverReused ==
    [](\A c \in Conns :
          conns[c].state = "closed"
          => /\ c \notin RegistryConns(connections)
             /\ \A t \in Tasks :
                   task[t].pc \in {"await_connect", "await_initialize",
                                   "await_notification", "await_operation"}
                   => task[t].conn # c)

InitializedAreRegistered ==
    \A server_name \in initialized_servers : Has(connections, server_name)

\* C35: no connection is leaked.  In every quiescent state (no operation in
\* progress) every connection whose connect() succeeded is the current
\* registry entry of its server name or has had disconnect() called on it;
\* in particular two concurrent connects for one name never leave an opened
\* connection overwritten in the registry without being closed.
NoConnectionLeaked ==
    Quiescent
    => /\ leaked = {}
       /\ \A c \in Conns :
             conns[c].state = "open"
             => /\ Has(connections, conns[c].server_name)
                /\ Get(connections, conns[c].server_name) = c

\* C36: disconnect_from_server removes from the registry only the
\* connection object it has disconnected.  If, while it awaits
\* connection.disconnect(), the entry of the name was removed and replaced
\* by a newer connection, the entry and the initialized status of the newer
\* connection are not deleted.
DisconnectRemovesOnlyItsConnection ==
    [][\A t \in Tasks :
          /\ task[t].op = "disconnect_from_server"
          /\ task[t].pc = "await_disconnect"
          /\ task'[t].pc = "done"
          /\ Has(connections, task[t].arg)
          /\ Get(connections, task[t].arg) # task[t].conn
          => /\ Has(connections', task[t].arg)
             /\ Get(connections', task[t].arg) = Get(connections, task[t].arg)
             /\ initialized_servers' = initialized_servers
      ]_vars

\* C37: when connection.disconnect() raises inside disconnect_from_server,
\* the registry entry of the server and its initialized status are left
\* exactly as before the call, so the server is still listed by
\* get_connected_servers and a later disconnect can be retried (it calls
\* disconnect() on the same connection again).
DisconnectFailureKeepsState ==
    /\ [][\A t \in Tasks :
             /\ task[t].op = "disconnect_from_server"
             /\ task[t].pc = "await_disconnect"
             /\ task'[t].why = "disconnect_raised"
             => /\ task'[t].pc = "done"
                /\ connections' = connections
                /\ initialized_servers' = initialized_servers
                /\ conns'[task[t].conn] = conns[task[t].conn]
       ]_vars
    /\ [](\A t \in Tasks :
             /\ Done(t)
             /\ task[t].op = "disconnect_from_server"
             /\ task[t].why = "disconnect_raised"
             => /\ Has(connections, task[t].arg)
                /\ Get(connections, task[t].arg) = task[t].conn
                /\ conns[task[t].conn].state = "open"
                /\ \E i \in 1..Len(GetConnectedServers(connections)) :
                      GetConnectedServers(connections)[i] = task[t].arg
                /\ LET retry == DisconnectFromServer(
                                   [State(t) EXCEPT !.me = IdleTask], task[t].arg)
                   IN  /\ retry.me.pc = "await_disconnect"
                       /\ retry.me.conn = task[t].conn)

\* disconnect() of an initialized server raised: the call has ended and the
\* server is registered and initialized as before.
DisconnectFailureWitness ==
    \E t \in Tasks :
        /\ Done(t)
        /\ task[t].op = "disconnect_from_server"
        /\ task[t].arg = "test_server"
        /\ task[t].why = "disconnect_raised"
        /\ Keys(connections) = <<"test_server">>
        /\ initialized_servers = {"test_server"}

\* C38: for every request that carries a non-null id, handle_request
\* returns exactly one Response, whose id is the id of the request and
\* which has exactly one of result and error (never both, never neither),
\* for every method, an unknown method included (error code -32601).
RequestsAreAnswered ==
    /\ server.line.text = "object"
    /\ GetOr(server.line.request.id, "None") # "None"
    => /\ \A now \in Clock :
             LET response == HandleRequest(server.line.request, now) IN
             /\ response.raised = "none"
             /\ response.id = server.line.request.id
             /\ Cardinality(response.keys \cap {"result", "error"}) = 1
             /\ server.line.request.method
                   \notin {"initialize", "tools/list", "tools/call", "resources/list",
                           "resources/read", "prompts/list", "prompts/get"}
                => /\ "error" \in response.keys
                   /\ response.code = -32601
       /\ Len(server.written) = 1
       /\ server.written[1].id = server.line.request.id

\* The Response the loop prints for a line that is not JSON.
ParseError(response) ==
    /\ response.keys = {"jsonrpc", "id", "error"}
    /\ response.id = "None"
    /\ response.code = -32700

\* C39: the loop of stdio_server survives bad input.  A line that is not
\* valid JSON produces one parse-error Response (code -32700, null id) and
\* the loop goes on to serve the following lines; a blank line produces no
\* output; the loop ends only at the end of input.
LoopSurvivesBadInput ==
    [][/\ server'.lines = server.lines + 1
       => /\ server.pc = "running"
          /\ server'.line.text = "invalid"
             => /\ Len(server'.written) = 1
                /\ ParseError(server'.written[1])
                /\ server'.pc = "running"
          /\ server'.line.text = "blank"
             => /\ server'.written = <<>>
                /\ server'.pc = "running"
          /\ server'.pc = "ended" <=> server'.line.text = "eof"
          /\ \* the line after a bad line is served as any other
             /\ server.line.text = "invalid"
             /\ server'.line.text = "object"
             => /\ server'.pc = "running"
                /\ \E now \in Clock :
                      LET response == HandleRequest(server'.line.request, now) IN
                      /\ response.raised = "none"
                         => server'.written
                               = IF response.keys = {} THEN <<>> ELSE <<response>>
                      /\ response.raised # "none"
                         => /\ Len(server'.written) = 1
                            /\ server'.written[1].code = -32603
      ]_vars

\* The second line read was not JSON: the parse error was printed for it
\* and the loop is running.
LoopSurvivesWitness ==
    /\ server.lines = 2
    /\ server.line.text = "invalid"
    /\ Len(server.written) = 1
    /\ ParseError(server.written[1])
    /\ server.pc = "running"

\* The requests the server answers without anything of its own time: the
\* three list requests and the calls of the tools echo and calculate.
Stateless(line) ==
    /\ line.text = "object"
    /\ GetOr(line.request.id, "None") # "None"
    /\ \/ line.request.method \in {"tools/list", "resources/list", "prompts/list"}
       \/ /\ line.request.method = "tools/call"
          /\ line.request.params = "dict"
          /\ line.request.name \in {"echo", "calculate"}

\* C40: the reference server keeps no session state.  Its Response to a
\* tools/list, resources/list, prompts/list, echo or calculate request
\* depends only on the request and not on any earlier message (in
\* particular not on whether initialize or initialized was received), and
\* tools/list always returns the three-tool catalog get_current_time,
\* calculate, echo, in that order.
ServerKeepsNoSessionState ==
    [][/\ server'.lines = server.lines + 1
       /\ Stateless(server'.line)
       => LET request == server'.line.request
              arguments == GetOr(request.arguments, "{}")
          IN  /\ \* whatever was read before, the Response is that of the request
                 server'.written =
                    <<CASE request.method # "tools/call" ->
                              ListResponse(request.id, request.method)
                        [] request.method = "tools/call" /\ arguments = "None" ->
                              ErrorResponse("None", -32603,
                                            <<"Internal error: ", "AttributeError">>)
                        [] request.method = "tools/call" /\ arguments # "None"
                           /\ request.name = "echo" ->
                              ResultResponse(request.id,
                                             <<"Echo: ", GetOr(request.message, "")>>)
                        [] OTHER ->
                              Calculate(request.id, arguments, request.expression)>>
              /\ \* the same request twice: the same Response
                 server.line = server'.line => server'.written = server.written
              /\ request.method = "tools/list"
                 => /\ server'.written[1].keys = {"jsonrpc", "id", "result"}
                    /\ server'.written[1].result.key = "tools"
                    /\ Len(server'.written[1].result.entries) = 3
                    /\ server'.written[1].result.entries[1].name = "get_current_time"
                    /\ server'.written[1].result.entries[2].name = "calculate"
                    /\ server'.written[1].result.entries[3].name = "echo"
      ]_vars

\* tools/list is the first message the server reads (no initialize before
\* it) and it is answered with the catalog.
ServerKeepsNoSessionWitness ==
    /\ server.lines = 1
    /\ server.line.text = "object"
    /\ server.line.request.method = "tools/list"
    /\ server.line.request.id = "1"
    /\ Len(server.written) = 1
    /\ server.written[1].id = "1"
    /\ Len(server.written[1].result.entries) = 3
    /\ server.written[1].result.entries[3].name = "echo"

====
